---- MODULE Spec2Model ----
(***************************************************************************)
(* State-machine model of the streaming semantic validator                 *)
(* (src/rust/src/consumers/validator.rs), of the gate-set reduction        *)
(* (src/rust/src/consumers/exp_definable.rs), of the gate builder          *)
(* (src/rust/src/producers/builder.rs) and of the renumbering of the       *)
(* output wires of a function body (src/rust/src/structs/gates.rs).        *)
(*                                                                         *)
(* Strings that the code inspects character by character (profile name,    *)
(* version) are sequences of one-character strings.  Field values are      *)
(* little-endian byte sequences, as in the code.                           *)
(***************************************************************************)
EXTENDS Integers, Sequences, FiniteSets, TLC

VARIABLES
    v,        \* the Validator struct
    pc,       \* "running", "done" (get_violations consumed self), "panicked"
    pending,  \* gates of the relation message being ingested that are still to come
    msgs,     \* number of messages whose ingestion has started
    result,   \* the Vec returned by get_violations
    last,     \* history: the operation that produced this state, with its input
    prev,     \* history: the Validator struct before that operation
    hist,     \* history: what the inputs so far looked like (see InitHist)
    red,      \* the gate-set reduction: its inputs and what each call returned
    builder,  \* the GateBuilder or FunctionBuilder struct, with the history of its calls
    renum     \* replace_output_wires: its arguments and what the call left

vars == <<v, pc, pending, msgs, result, last, prev, hist, red, builder, renum>>

----------------------------------------------------------------------------
(* Bounds *)

MaxGates == 2      \* Spec: gates in the relation message
MaxFreeGates == 3  \* FreeSpec: gates in the relation message
WFMaxMsgs == 3     \* WFSpec: messages ingested
WFMaxGates == 3    \* WFSpec: gates ingested over all relation messages
WFMaxValues == 1   \* WFSpec: values per instance or witness message
HMaxMsgs == 2      \* HeaderSpec: messages ingested
VMaxMsgs == 2      \* ValueSpec: messages ingested
VMaxValues == 1    \* ValueSpec: values per instance or witness message
IMaxMsgs == 3      \* InputSpec: messages ingested
IMaxGates == 2     \* InputSpec: gates ingested over all relation messages
IMaxValues == 1    \* InputSpec: values per instance or witness message
OMaxMsgs == 2      \* OrderSpec: messages ingested
OMaxGates == 2     \* OrderSpec: gates ingested over all relation messages
OMaxValues == 2    \* OrderSpec: values ingested over all instance and witness messages
RMaxGates == 1     \* RedSpec: gates of the relation to reduce (nested bodies not counted)
RMaxRuns == 2      \* RedSpec: successive calls of exp_definable_from with the same mask
AMaxAllocs == 3    \* AllocSpec: allocations on one builder
AMaxCount == 2     \* AllocSpec: wires asked of multiple_alloc at once
FMaxCalls == 5     \* FunctionSpec: calls made on the GateBuilder and its FunctionBuilder
DMaxCalls == 4     \* DeliverySpec: calls made on the builder, finish included
DMaxLen == 3       \* DeliverySpec: the largest max_len of the MessageBuilder
BMaxCalls == 3     \* BuilderSpec: calls made on the builder
NMaxGates == 2     \* RenumSpec: gates of the function body
NMaxOutputs == 2   \* RenumSpec: elements of the list of output wires
WireIdBits == 16   \* width of a WireId; u64 in the code, narrowed to fit the checker's integers
SMaxGates == 1     \* CallSpec: gates of the relation reduced call by call (nested bodies not counted)
RTMaxGates == 3    \* RoundTripSpec: gates of the relation after its two input gates

----------------------------------------------------------------------------
(* Strings as character sequences *)

(* A character is a one-character string; a character that has no escape   *)
(* is written by its code point, "U+0663".                                  *)

AsciiDigits == {"0", "1", "2", "3", "4", "5", "6", "7", "8", "9"}

\* The decimal digits of the other scripts (general category Nd)
UnicodeDigits ==
    {"U+0660", "U+0661", "U+0662", "U+0663", "U+0664", "U+0665", "U+0666",
     "U+0667", "U+0668", "U+0669", "U+06F0", "U+06F1", "U+06F2", "U+06F3",
     "U+06F4", "U+06F5", "U+06F6", "U+06F7", "U+06F8", "U+06F9", "U+07C0",
     "U+07C1", "U+07C2", "U+07C3", "U+07C4", "U+07C5", "U+07C6", "U+07C7",
     "U+07C8", "U+07C9", "U+0966", "U+0967", "U+0968", "U+0969", "U+096A",
     "U+096B", "U+096C", "U+096D", "U+096E", "U+096F", "U+09E6", "U+09E7",
     "U+09E8", "U+09E9", "U+09EA", "U+09EB", "U+09EC", "U+09ED", "U+09EE",
     "U+09EF", "U+0A66", "U+0A67", "U+0A68", "U+0A69", "U+0A6A", "U+0A6B",
     "U+0A6C", "U+0A6D", "U+0A6E", "U+0A6F", "U+0AE6", "U+0AE7", "U+0AE8",
     "U+0AE9", "U+0AEA", "U+0AEB", "U+0AEC", "U+0AED", "U+0AEE", "U+0AEF",
     "U+0B66", "U+0B67", "U+0B68", "U+0B69", "U+0B6A", "U+0B6B", "U+0B6C",
     "U+0B6D", "U+0B6E", "U+0B6F", "U+0BE6", "U+0BE7", "U+0BE8", "U+0BE9",
     "U+0BEA", "U+0BEB", "U+0BEC", "U+0BED", "U+0BEE", "U+0BEF", "U+0C66",
     "U+0C67", "U+0C68", "U+0C69", "U+0C6A", "U+0C6B", "U+0C6C", "U+0C6D",
     "U+0C6E", "U+0C6F", "U+0CE6", "U+0CE7", "U+0CE8", "U+0CE9", "U+0CEA",
     "U+0CEB", "U+0CEC", "U+0CED", "U+0CEE", "U+0CEF", "U+0D66", "U+0D67",
     "U+0D68", "U+0D69", "U+0D6A", "U+0D6B", "U+0D6C", "U+0D6D", "U+0D6E",
     "U+0D6F", "U+0DE6", "U+0DE7", "U+0DE8", "U+0DE9", "U+0DEA", "U+0DEB",
     "U+0DEC", "U+0DED", "U+0DEE", "U+0DEF", "U+0E50", "U+0E51", "U+0E52",
     "U+0E53", "U+0E54", "U+0E55", "U+0E56", "U+0E57", "U+0E58", "U+0E59",
     "U+0ED0", "U+0ED1", "U+0ED2", "U+0ED3", "U+0ED4", "U+0ED5", "U+0ED6",
     "U+0ED7", "U+0ED8", "U+0ED9", "U+0F20", "U+0F21", "U+0F22", "U+0F23",
     "U+0F24", "U+0F25", "U+0F26", "U+0F27", "U+0F28", "U+0F29", "U+1040",
     "U+1041", "U+1042", "U+1043", "U+1044", "U+1045", "U+1046", "U+1047",
     "U+1048", "U+1049", "U+1090", "U+1091", "U+1092", "U+1093", "U+1094",
     "U+1095", "U+1096", "U+1097", "U+1098", "U+1099", "U+17E0", "U+17E1",
     "U+17E2", "U+17E3", "U+17E4", "U+17E5", "U+17E6", "U+17E7", "U+17E8",
     "U+17E9", "U+1810", "U+1811", "U+1812", "U+1813", "U+1814", "U+1815",
     "U+1816", "U+1817", "U+1818", "U+1819", "U+1946", "U+1947", "U+1948",
     "U+1949", "U+194A", "U+194B", "U+194C", "U+194D", "U+194E", "U+194F",
     "U+19D0", "U+19D1", "U+19D2", "U+19D3", "U+19D4", "U+19D5", "U+19D6",
     "U+19D7", "U+19D8", "U+19D9", "U+1A80", "U+1A81", "U+1A82", "U+1A83",
     "U+1A84", "U+1A85", "U+1A86", "U+1A87", "U+1A88", "U+1A89", "U+1A90",
     "U+1A91", "U+1A92", "U+1A93", "U+1A94", "U+1A95", "U+1A96", "U+1A97",
     "U+1A98", "U+1A99", "U+1B50", "U+1B51", "U+1B52", "U+1B53", "U+1B54",
     "U+1B55", "U+1B56", "U+1B57", "U+1B58", "U+1B59", "U+1BB0", "U+1BB1",
     "U+1BB2", "U+1BB3", "U+1BB4", "U+1BB5", "U+1BB6", "U+1BB7", "U+1BB8",
     "U+1BB9", "U+1C40", "U+1C41", "U+1C42", "U+1C43", "U+1C44", "U+1C45",
     "U+1C46", "U+1C47", "U+1C48", "U+1C49", "U+1C50", "U+1C51", "U+1C52",
     "U+1C53", "U+1C54", "U+1C55", "U+1C56", "U+1C57", "U+1C58", "U+1C59",
     "U+A620", "U+A621", "U+A622", "U+A623", "U+A624", "U+A625", "U+A626",
     "U+A627", "U+A628", "U+A629", "U+A8D0", "U+A8D1", "U+A8D2", "U+A8D3",
     "U+A8D4", "U+A8D5", "U+A8D6", "U+A8D7", "U+A8D8", "U+A8D9", "U+A900",
     "U+A901", "U+A902", "U+A903", "U+A904", "U+A905", "U+A906", "U+A907",
     "U+A908", "U+A909", "U+A9D0", "U+A9D1", "U+A9D2", "U+A9D3", "U+A9D4",
     "U+A9D5", "U+A9D6", "U+A9D7", "U+A9D8", "U+A9D9", "U+A9F0", "U+A9F1",
     "U+A9F2", "U+A9F3", "U+A9F4", "U+A9F5", "U+A9F6", "U+A9F7", "U+A9F8",
     "U+A9F9", "U+AA50", "U+AA51", "U+AA52", "U+AA53", "U+AA54", "U+AA55",
     "U+AA56", "U+AA57", "U+AA58", "U+AA59", "U+ABF0", "U+ABF1", "U+ABF2",
     "U+ABF3", "U+ABF4", "U+ABF5", "U+ABF6", "U+ABF7", "U+ABF8", "U+ABF9",
     "U+FF10", "U+FF11", "U+FF12", "U+FF13", "U+FF14", "U+FF15", "U+FF16",
     "U+FF17", "U+FF18", "U+FF19", "U+104A0", "U+104A1", "U+104A2", "U+104A3",
     "U+104A4", "U+104A5", "U+104A6", "U+104A7", "U+104A8", "U+104A9", "U+10D30",
     "U+10D31", "U+10D32", "U+10D33", "U+10D34", "U+10D35", "U+10D36", "U+10D37",
     "U+10D38", "U+10D39", "U+11066", "U+11067", "U+11068", "U+11069", "U+1106A",
     "U+1106B", "U+1106C", "U+1106D", "U+1106E", "U+1106F", "U+110F0", "U+110F1",
     "U+110F2", "U+110F3", "U+110F4", "U+110F5", "U+110F6", "U+110F7", "U+110F8",
     "U+110F9", "U+11136", "U+11137", "U+11138", "U+11139", "U+1113A", "U+1113B",
     "U+1113C", "U+1113D", "U+1113E", "U+1113F", "U+111D0", "U+111D1", "U+111D2",
     "U+111D3", "U+111D4", "U+111D5", "U+111D6", "U+111D7", "U+111D8", "U+111D9",
     "U+112F0", "U+112F1", "U+112F2", "U+112F3", "U+112F4", "U+112F5", "U+112F6",
     "U+112F7", "U+112F8", "U+112F9", "U+11450", "U+11451", "U+11452", "U+11453",
     "U+11454", "U+11455", "U+11456", "U+11457", "U+11458", "U+11459", "U+114D0",
     "U+114D1", "U+114D2", "U+114D3", "U+114D4", "U+114D5", "U+114D6", "U+114D7",
     "U+114D8", "U+114D9", "U+11650", "U+11651", "U+11652", "U+11653", "U+11654",
     "U+11655", "U+11656", "U+11657", "U+11658", "U+11659", "U+116C0", "U+116C1",
     "U+116C2", "U+116C3", "U+116C4", "U+116C5", "U+116C6", "U+116C7", "U+116C8",
     "U+116C9", "U+11730", "U+11731", "U+11732", "U+11733", "U+11734", "U+11735",
     "U+11736", "U+11737", "U+11738", "U+11739", "U+118E0", "U+118E1", "U+118E2",
     "U+118E3", "U+118E4", "U+118E5", "U+118E6", "U+118E7", "U+118E8", "U+118E9",
     "U+11950", "U+11951", "U+11952", "U+11953", "U+11954", "U+11955", "U+11956",
     "U+11957", "U+11958", "U+11959", "U+11C50", "U+11C51", "U+11C52", "U+11C53",
     "U+11C54", "U+11C55", "U+11C56", "U+11C57", "U+11C58", "U+11C59", "U+11D50",
     "U+11D51", "U+11D52", "U+11D53", "U+11D54", "U+11D55", "U+11D56", "U+11D57",
     "U+11D58", "U+11D59", "U+11DA0", "U+11DA1", "U+11DA2", "U+11DA3", "U+11DA4",
     "U+11DA5", "U+11DA6", "U+11DA7", "U+11DA8", "U+11DA9", "U+16A60", "U+16A61",
     "U+16A62", "U+16A63", "U+16A64", "U+16A65", "U+16A66", "U+16A67", "U+16A68",
     "U+16A69", "U+16AC0", "U+16AC1", "U+16AC2", "U+16AC3", "U+16AC4", "U+16AC5",
     "U+16AC6", "U+16AC7", "U+16AC8", "U+16AC9", "U+16B50", "U+16B51", "U+16B52",
     "U+16B53", "U+16B54", "U+16B55", "U+16B56", "U+16B57", "U+16B58", "U+16B59",
     "U+1D7CE", "U+1D7CF", "U+1D7D0", "U+1D7D1", "U+1D7D2", "U+1D7D3", "U+1D7D4",
     "U+1D7D5", "U+1D7D6", "U+1D7D7", "U+1D7D8", "U+1D7D9", "U+1D7DA", "U+1D7DB",
     "U+1D7DC", "U+1D7DD", "U+1D7DE", "U+1D7DF", "U+1D7E0", "U+1D7E1", "U+1D7E2",
     "U+1D7E3", "U+1D7E4", "U+1D7E5", "U+1D7E6", "U+1D7E7", "U+1D7E8", "U+1D7E9",
     "U+1D7EA", "U+1D7EB", "U+1D7EC", "U+1D7ED", "U+1D7EE", "U+1D7EF", "U+1D7F0",
     "U+1D7F1", "U+1D7F2", "U+1D7F3", "U+1D7F4", "U+1D7F5", "U+1D7F6", "U+1D7F7",
     "U+1D7F8", "U+1D7F9", "U+1D7FA", "U+1D7FB", "U+1D7FC", "U+1D7FD", "U+1D7FE",
     "U+1D7FF", "U+1E140", "U+1E141", "U+1E142", "U+1E143", "U+1E144", "U+1E145",
     "U+1E146", "U+1E147", "U+1E148", "U+1E149", "U+1E2F0", "U+1E2F1", "U+1E2F2",
     "U+1E2F3", "U+1E2F4", "U+1E2F5", "U+1E2F6", "U+1E2F7", "U+1E2F8", "U+1E2F9",
     "U+1E950", "U+1E951", "U+1E952", "U+1E953", "U+1E954", "U+1E955", "U+1E956",
     "U+1E957", "U+1E958", "U+1E959", "U+1FBF0", "U+1FBF1", "U+1FBF2", "U+1FBF3",
     "U+1FBF4", "U+1FBF5", "U+1FBF6", "U+1FBF7", "U+1FBF8", "U+1FBF9"}

\* The decimal digits added to the category since (Unicode 15 and 16), which
\* the tables of the regex crate 1.12 hold
LaterUnicodeDigits ==
    {"U+10D40", "U+10D41", "U+10D42", "U+10D43", "U+10D44", "U+10D45", "U+10D46",
     "U+10D47", "U+10D48", "U+10D49", "U+116D0", "U+116D1", "U+116D2", "U+116D3",
     "U+116D4", "U+116D5", "U+116D6", "U+116D7", "U+116D8", "U+116D9", "U+116DA",
     "U+116DB", "U+116DC", "U+116DD", "U+116DE", "U+116DF", "U+116E0", "U+116E1",
     "U+116E2", "U+116E3", "U+11BF0", "U+11BF1", "U+11BF2", "U+11BF3", "U+11BF4",
     "U+11BF5", "U+11BF6", "U+11BF7", "U+11BF8", "U+11BF9", "U+11F50", "U+11F51",
     "U+11F52", "U+11F53", "U+11F54", "U+11F55", "U+11F56", "U+11F57", "U+11F58",
     "U+11F59", "U+16130", "U+16131", "U+16132", "U+16133", "U+16134", "U+16135",
     "U+16136", "U+16137", "U+16138", "U+16139", "U+16D70", "U+16D71", "U+16D72",
     "U+16D73", "U+16D74", "U+16D75", "U+16D76", "U+16D77", "U+16D78", "U+16D79",
     "U+1CCF0", "U+1CCF1", "U+1CCF2", "U+1CCF3", "U+1CCF4", "U+1CCF5", "U+1CCF6",
     "U+1CCF7", "U+1CCF8", "U+1CCF9", "U+1E4F0", "U+1E4F1", "U+1E4F2", "U+1E4F3",
     "U+1E4F4", "U+1E4F5", "U+1E4F6", "U+1E4F7", "U+1E4F8", "U+1E4F9", "U+1E5F1",
     "U+1E5F2", "U+1E5F3", "U+1E5F4", "U+1E5F5", "U+1E5F6", "U+1E5F7", "U+1E5F8",
     "U+1E5F9", "U+1E5FA"}

\* \d of the regex crate: any decimal digit of Unicode
Digits == AsciiDigits \cup UnicodeDigits \cup LaterUnicodeDigits

\* char::is_whitespace, which str::trim goes by: the White_Space property
WhiteSpace ==
    {"\t", "\n", "U+000B", "\f", "\r", " ", "U+0085", "U+00A0", "U+1680",
     "U+2000", "U+2001", "U+2002", "U+2003", "U+2004", "U+2005", "U+2006",
     "U+2007", "U+2008", "U+2009", "U+200A", "U+2028", "U+2029", "U+202F",
     "U+205F", "U+3000"}

\* str::trim_start
RECURSIVE TrimStart(_)
TrimStart(s) ==
    IF Len(s) > 0 /\ Head(s) \in WhiteSpace THEN TrimStart(Tail(s)) ELSE s

\* str::trim_end
RECURSIVE TrimEnd(_)
TrimEnd(s) ==
    IF Len(s) > 0 /\ s[Len(s)] \in WhiteSpace
    THEN TrimEnd(SubSeq(s, 1, Len(s) - 1))
    ELSE s

\* str::trim
Trim(s) == TrimEnd(TrimStart(s))

\* \d+ on the characters from..to of s
AllDigits(s, from, to) ==
    /\ from <= to
    /\ \A k \in from..to : s[k] \in Digits

\* The character class of an unescaped `.` of the regex crate: anything but \n.
AnyChar(c) == c # "\n"

\* Regex::new(VERSION_REGEX).is_match(s) for r"^\d+.\d+.\d+$": the two
\* separators are unescaped dots.
VERSION_REGEX(s) ==
    \E i, j \in 1..Len(s) :
        /\ i < j
        /\ AllDigits(s, 1, i - 1)
        /\ AnyChar(s[i])
        /\ AllDigits(s, i + 1, j - 1)
        /\ AnyChar(s[j])
        /\ AllDigits(s, j + 1, Len(s))

circ_arithmetic_simple ==
    <<"c","i","r","c","_","a","r","i","t","h","m","e","t","i","c","_",
      "s","i","m","p","l","e">>

circ_boolean_simple ==
    <<"c","i","r","c","_","b","o","o","l","e","a","n","_","s","i","m","p","l","e">>

----------------------------------------------------------------------------
(* Values *)

\* BigUint::from_bytes_le
RECURSIVE from_bytes_le(_)
from_bytes_le(bytes) ==
    IF Len(bytes) = 0 THEN 0 ELSE Head(bytes) + 256 * from_bytes_le(Tail(bytes))

----------------------------------------------------------------------------
(* Violation messages: the format string, the name closure's format string *)
(* (empty when the message has none) and the formatted arguments, each a   *)
(* sequence of numbers (a wire id or integer is a one-element sequence, a  *)
(* value is its byte sequence).                                            *)

Msg(fmt, name, args) == [fmt |-> fmt, name |-> name, args |-> args]

MsgCharacteristicInconsistent ==
    Msg("The field_characteristic field is not consistent across headers.", "", <<>>)
MsgDegreeInconsistent ==
    Msg("The field_degree is not consistent across headers.", "", <<>>)
MsgProfileInconsistent ==
    Msg("The profile name is not consistent across headers.", "", <<>>)
MsgVersionInconsistent ==
    Msg("The profile version is not consistent across headers.", "", <<>>)
MsgCharacteristicTooSmall ==
    Msg("The field_characteristic should be > 1", "", <<>>)
MsgDegreeNotOne ==
    Msg("field_degree must be = 1", "", <<>>)
MsgBooleanCharacteristic ==
    Msg("With profile 'circ_boolean_simple', the field characteristic can only be 2.", "", <<>>)
MsgProfileName ==
    Msg("The profile name should match either 'circ_arithmetic_simple' or 'circ_boolean_simple'.", "", <<>>)
MsgVersionFormat ==
    Msg("The profile version should match the following format <major>.<minor>.<patch>.", "", <<>>)
MsgUnexpectedWitness ==
    Msg("As verifier, got an unexpected Witness message.", "", <<>>)
MsgNoInstanceValue(out) ==
    Msg("No value available for the Instance wire {}", "", << <<out>> >>)
MsgNoWitnessValue(out) ==
    Msg("No value available for the Witness wire {}", "", << <<out>> >>)
MsgFreedNotDefined(id) ==
    Msg("The variable {} is being freed, but was not defined previously, or has been already freed",
        "", << <<id>> >>)
MsgUsedNotAssigned(id) ==
    Msg("The wire {} is used but was not assigned a value, or has been freed already.",
        "", << <<id>> >>)
MsgSSA(id) ==
    Msg("The wire {} has already been initialized before. This violates the SSA property.",
        "", << <<id>> >>)
MsgEmpty(name, nameargs) ==
    Msg("The {} is empty.", name, nameargs)
MsgNotInField(name, nameargs, int, characteristic) ==
    Msg("The {} cannot be represented in the field specified in Header ({} >= {}).",
        name, nameargs \o << <<int>>, <<characteristic>> >>)
MsgArithmeticGate(gate_name) ==
    Msg("Arithmetic gate found ({}), while boolean circuit.", gate_name, <<>>)
MsgBooleanGate(gate_name) ==
    Msg("Boolean gate found ({}), while arithmetic circuit.", gate_name, <<>>)
MsgTooManyInstance(n) ==
    Msg("Too many Instance values ({} not consumed)", "", << <<n>> >>)
MsgTooManyWitness(n) ==
    Msg("Too many Witness values ({} not consumed)", "", << <<n>> >>)

----------------------------------------------------------------------------
(* The Validator struct and its methods, as operators on the struct *)

\* Validator::default() with the given mode (new_as_verifier / new_as_prover)
NewValidator(as_prover) ==
    [ as_prover             |-> as_prover,
      instance_queue_len    |-> 0,
      witness_queue_len     |-> 0,
      live_wires            |-> {},
      got_header            |-> FALSE,
      header_profile        |-> <<>>,
      header_version        |-> <<>>,
      is_arithmetic_circuit |-> FALSE,
      field_characteristic  |-> 0,
      field_degree          |-> 0,
      field_bytelen         |-> 0,
      violations            |-> <<>> ]

\* Mutant: the new diagnostic is put in front of the list.
violate_in_front(self, msg) == [self EXCEPT !.violations = <<msg>> \o @]

violate(self, msg) == [self EXCEPT !.violations = Append(@, msg)]

is_defined(self, id) == id \in self.live_wires

declare(self, id) == [self EXCEPT !.live_wires = @ \cup {id}]

\* Mutant: the wire stays in the live set.
remove_keeps_wire(self, id) ==
    IF id \in self.live_wires THEN self ELSE violate(self, MsgFreedNotDefined(id))

remove(self, id) ==
    IF id \in self.live_wires
    THEN [self EXCEPT !.live_wires = @ \ {id}]
    ELSE violate(self, MsgFreedNotDefined(id))

\* Mutant: the wire found undefined is not declared.
ensure_defined_no_declare(self, id) ==
    IF ~is_defined(self, id) /\ self.as_prover
    THEN violate(self, MsgUsedNotAssigned(id))
    ELSE self

ensure_defined_and_set(self, id) ==
    IF ~is_defined(self, id)
    THEN declare(IF self.as_prover THEN violate(self, MsgUsedNotAssigned(id)) ELSE self, id)
    ELSE self

\* Mutant: the wire is declared before the check.
ensure_undefined_declares_first(self, id) ==
    LET s1 == declare(self, id)
    IN  IF is_defined(s1, id) THEN violate(s1, MsgSSA(id)) ELSE s1

ensure_undefined_and_set(self, id) ==
    declare(IF is_defined(self, id) THEN violate(self, MsgSSA(id)) ELSE self, id)

\* Mutant: a value equal to the characteristic is accepted.
ensure_value_above_field(self, value, name, nameargs) ==
    LET s1  == IF Len(value) = 0 THEN violate(self, MsgEmpty(name, nameargs)) ELSE self
        int == from_bytes_le(value)
    IN  IF int > s1.field_characteristic
        THEN violate(s1, MsgNotInField(name, nameargs, int, s1.field_characteristic))
        ELSE s1

ensure_value_in_field(self, value, name, nameargs) ==
    LET s1  == IF Len(value) = 0 THEN violate(self, MsgEmpty(name, nameargs)) ELSE self
        int == from_bytes_le(value)
    IN  IF int >= s1.field_characteristic
        THEN violate(s1, MsgNotInField(name, nameargs, int, s1.field_characteristic))
        ELSE s1

ensure_arithmetic(self, gate_name) ==
    IF ~self.is_arithmetic_circuit THEN violate(self, MsgArithmeticGate(gate_name)) ELSE self

ensure_boolean(self, gate_name) ==
    IF self.is_arithmetic_circuit THEN violate(self, MsgBooleanGate(gate_name)) ELSE self

ensure_all_instance_values_consumed(self) ==
    IF self.instance_queue_len > 0
    THEN violate(self, MsgTooManyInstance(self.instance_queue_len))
    ELSE self

\* Mutant: the witness surplus is reported in verifier mode too.
ensure_all_witness_values_any_mode(self) ==
    IF self.witness_queue_len > 0
    THEN violate(self, MsgTooManyWitness(self.witness_queue_len))
    ELSE self

ensure_all_witness_values_consumed(self) ==
    IF self.as_prover /\ self.witness_queue_len > 0
    THEN violate(self, MsgTooManyWitness(self.witness_queue_len))
    ELSE self

\* Mutant: the first header is recorded without being validated.
record_first_header(self, header) ==
    [self EXCEPT !.got_header = TRUE,
                 !.field_characteristic = from_bytes_le(header.field_characteristic),
                 !.field_bytelen = Len(header.field_characteristic),
                 !.field_degree = header.field_degree,
                 !.header_profile = header.profile,
                 !.is_arithmetic_circuit = (Trim(header.profile) = circ_arithmetic_simple),
                 !.header_version = header.version]

\* The else branch of ingest_header: the first header is recorded and validated.
ingest_first_header(self, header) ==
    LET characteristic == from_bytes_le(header.field_characteristic)
        s1 == [self EXCEPT !.got_header = TRUE, !.field_characteristic = characteristic]
        s2 == IF ~(characteristic > 1) THEN violate(s1, MsgCharacteristicTooSmall) ELSE s1
        s3 == [s2 EXCEPT !.field_bytelen = Len(header.field_characteristic),
                         !.field_degree = header.field_degree]
        s4 == IF s3.field_degree # 1 THEN violate(s3, MsgDegreeNotOne) ELSE s3
        s5 == [s4 EXCEPT !.header_profile = header.profile]
        trimmed == Trim(s5.header_profile)
        s6 == IF trimmed = circ_arithmetic_simple
              THEN [s5 EXCEPT !.is_arithmetic_circuit = TRUE]
              ELSE IF trimmed = circ_boolean_simple
              THEN LET s5b == [s5 EXCEPT !.is_arithmetic_circuit = FALSE]
                   IN  IF s5b.field_characteristic # 2
                       THEN violate(s5b, MsgBooleanCharacteristic)
                       ELSE s5b
              ELSE violate(s5, MsgProfileName)
        s7 == IF ~VERSION_REGEX(Trim(header.version)) THEN violate(s6, MsgVersionFormat) ELSE s6
    IN  [s7 EXCEPT !.header_version = header.version]

\* Mutant: a later header that differs replaces the record.
replace_header(self, header) ==
    LET s1 == IF self.field_characteristic # from_bytes_le(header.field_characteristic)
              THEN violate(self, MsgCharacteristicInconsistent) ELSE self
        s2 == IF s1.field_degree # header.field_degree
              THEN violate(s1, MsgDegreeInconsistent) ELSE s1
        s3 == IF s2.header_profile # header.profile
              THEN violate(s2, MsgProfileInconsistent) ELSE s2
        s4 == IF s3.header_version # header.version
              THEN violate(s3, MsgVersionInconsistent) ELSE s3
    IN  [s4 EXCEPT !.field_characteristic = from_bytes_le(header.field_characteristic),
                   !.field_degree = header.field_degree,
                   !.header_profile = header.profile,
                   !.header_version = header.version]

\* The then branch of ingest_header: a later header is compared with the record.
ingest_later_header(self, header) ==
    LET s1 == IF self.field_characteristic # from_bytes_le(header.field_characteristic)
              THEN violate(self, MsgCharacteristicInconsistent) ELSE self
        s2 == IF s1.field_degree # header.field_degree
              THEN violate(s1, MsgDegreeInconsistent) ELSE s1
        s3 == IF s2.header_profile # header.profile
              THEN violate(s2, MsgProfileInconsistent) ELSE s2
    IN  IF s3.header_version # header.version
        THEN violate(s3, MsgVersionInconsistent) ELSE s3

ingest_header(self, header) ==
    IF self.got_header
    THEN ingest_later_header(self, header)
    ELSE ingest_first_header(self, header)

RECURSIVE check_values(_, _, _)
check_values(self, values, name) ==
    IF Len(values) = 0 THEN self
    ELSE check_values(ensure_value_in_field(self, Head(values), name, <<Head(values)>>),
                      Tail(values), name)

ingest_instance(self, instance) ==
    LET s1 == ingest_header(self, instance.header)
        s2 == check_values(s1, instance.common_inputs, "instance value {:?}")
    IN  [s2 EXCEPT !.instance_queue_len = @ + Len(instance.common_inputs)]

\* Mutant: a verifier rejects the witness message without reading it.
ingest_witness_rejecting(self, witness) ==
    IF ~self.as_prover THEN violate(self, MsgUnexpectedWitness)
    ELSE LET s1 == ingest_header(self, witness.header)
             s2 == check_values(s1, witness.short_witness, "witness value {:?}")
         IN  [s2 EXCEPT !.witness_queue_len = @ + Len(witness.short_witness)]

ingest_witness(self, witness) ==
    LET s0 == IF ~self.as_prover THEN violate(self, MsgUnexpectedWitness) ELSE self
        s1 == ingest_header(s0, witness.header)
        s2 == check_values(s1, witness.short_witness, "witness value {:?}")
    IN  [s2 EXCEPT !.witness_queue_len = @ + Len(witness.short_witness)]

----------------------------------------------------------------------------
(* Gates *)

None == <<>>
Some(x) == <<x>>

Constant(out, value) == [kind |-> "Constant", out |-> out, value |-> value]
AssertZero(inp) == [kind |-> "AssertZero", inp |-> inp]
Copy(out, inp) == [kind |-> "Copy", out |-> out, inp |-> inp]
Add(out, left, right) == [kind |-> "Add", out |-> out, left |-> left, right |-> right]
Mul(out, left, right) == [kind |-> "Mul", out |-> out, left |-> left, right |-> right]
AddConstant(out, inp, constant) ==
    [kind |-> "AddConstant", out |-> out, inp |-> inp, constant |-> constant]
MulConstant(out, inp, constant) ==
    [kind |-> "MulConstant", out |-> out, inp |-> inp, constant |-> constant]
And(out, left, right) == [kind |-> "And", out |-> out, left |-> left, right |-> right]
Xor(out, left, right) == [kind |-> "Xor", out |-> out, left |-> left, right |-> right]
Not(out, inp) == [kind |-> "Not", out |-> out, inp |-> inp]
Instance(out) == [kind |-> "Instance", out |-> out]
Witness(out) == [kind |-> "Witness", out |-> out]
Free(first, last_) == [kind |-> "Free", first |-> first, last |-> last_]
Function == [kind |-> "Function"]
Call == [kind |-> "Call"]

\* The gates whose arm of ingest_gate is unimplemented!()
Unimplemented(gate) == gate.kind \in {"Function", "Call"}

\* for wire_id in *first..=last.unwrap_or(*first) { ... }
RECURSIVE free_range(_, _, _)
free_range(self, wire_id, end) ==
    IF wire_id > end THEN self
    ELSE free_range(remove(ensure_defined_and_set(self, wire_id), wire_id), wire_id + 1, end)

unwrap_or(opt, default) == IF opt = None THEN default ELSE opt[1]

binary_gate(self, gate) ==
    ensure_undefined_and_set(
        ensure_defined_and_set(ensure_defined_and_set(self, gate.left), gate.right),
        gate.out)

\* Mutant: the Instance gate takes a value without looking at the queue.
consume_instance_unchecked(self, out) ==
    [self EXCEPT !.instance_queue_len = @ - 1]

consume_instance(self, out) ==
    IF self.instance_queue_len > 0
    THEN [self EXCEPT !.instance_queue_len = @ - 1]
    ELSE violate(self, MsgNoInstanceValue(out))

consume_witness(self, out) ==
    IF self.as_prover
    THEN IF self.witness_queue_len > 0
         THEN [self EXCEPT !.witness_queue_len = @ - 1]
         ELSE violate(self, MsgNoWitnessValue(out))
    ELSE self

\* ingest_gate for the arms that return; the Function and Call arms panic
\* (see IngestGate).
ingest_gate(self, gate) ==
    CASE gate.kind = "Constant" ->
            ensure_undefined_and_set(
                ensure_value_in_field(self, gate.value, "Gate::Constant constant", <<>>),
                gate.out)
      [] gate.kind = "AssertZero" ->
            ensure_defined_and_set(self, gate.inp)
      [] gate.kind = "Copy" ->
            ensure_undefined_and_set(ensure_defined_and_set(self, gate.inp), gate.out)
      [] gate.kind = "Add" -> binary_gate(ensure_arithmetic(self, "Add"), gate)
      [] gate.kind = "Mul" -> binary_gate(ensure_arithmetic(self, "Mul"), gate)
      [] gate.kind = "AddConstant" ->
            ensure_undefined_and_set(
                ensure_defined_and_set(
                    ensure_value_in_field(ensure_arithmetic(self, "AddConstant"),
                                          gate.constant, "Gate::AddConstant_{}", << <<gate.out>> >>),
                    gate.inp),
                gate.out)
      [] gate.kind = "MulConstant" ->
            ensure_undefined_and_set(
                ensure_defined_and_set(
                    ensure_value_in_field(ensure_arithmetic(self, "MulConstant"),
                                          gate.constant, "Gate::MulConstant_{}", << <<gate.out>> >>),
                    gate.inp),
                gate.out)
      [] gate.kind = "And" -> binary_gate(ensure_boolean(self, "And"), gate)
      [] gate.kind = "Xor" -> binary_gate(ensure_boolean(self, "Xor"), gate)
      [] gate.kind = "Not" ->
            ensure_undefined_and_set(
                ensure_defined_and_set(ensure_boolean(self, "Not"), gate.inp), gate.out)
      [] gate.kind = "Instance" -> consume_instance(declare(self, gate.out), gate.out)
      [] gate.kind = "Witness" -> consume_witness(declare(self, gate.out), gate.out)
      [] gate.kind = "Free" ->
            free_range(self, gate.first, unwrap_or(gate.last, gate.first))

\* get_violations(mut self) -> Vec<String>
get_violations(self) ==
    ensure_all_witness_values_consumed(ensure_all_instance_values_consumed(self)).violations

----------------------------------------------------------------------------
(* Headers and messages *)

Header(field_characteristic, field_degree, profile, version) ==
    [ field_characteristic |-> field_characteristic,
      field_degree         |-> field_degree,
      profile              |-> profile,
      version              |-> version ]

\* producers/examples.rs: the example field is literal32(101).
EXAMPLE_MODULUS == <<101, 0, 0, 0>>

Version_1_0_0 == <<"1", ".", "0", ".", "0">>

ArithmeticHeader == Header(EXAMPLE_MODULUS, 1, circ_arithmetic_simple, Version_1_0_0)
BooleanHeader == Header(<<2>>, 1, circ_boolean_simple, Version_1_0_0)

\* All sequences over S of length at most n
RECURSIVE SeqsUpTo(_, _)
SeqsUpTo(S, n) ==
    IF n = 0 THEN {<<>>}
    ELSE LET shorter == SeqsUpTo(S, n - 1)
         IN  shorter \cup {Append(s, x) : s \in shorter, x \in S}

\* All gates over the wire ids W and the constants K
GatesOver(W, K) ==
    {Constant(o, k) : o \in W, k \in K}
    \cup {AssertZero(i) : i \in W}
    \cup {Copy(o, i) : o \in W, i \in W}
    \cup {Add(o, l, r) : o \in W, l \in W, r \in W}
    \cup {Mul(o, l, r) : o \in W, l \in W, r \in W}
    \cup {AddConstant(o, i, k) : o \in W, i \in W, k \in K}
    \cup {MulConstant(o, i, k) : o \in W, i \in W, k \in K}
    \cup {And(o, l, r) : o \in W, l \in W, r \in W}
    \cup {Xor(o, l, r) : o \in W, l \in W, r \in W}
    \cup {Not(o, i) : o \in W, i \in W}
    \cup {Instance(o) : o \in W}
    \cup {Witness(o) : o \in W}
    \cup {Free(f, None) : f \in W}
    \cup {Free(f, Some(l)) : f \in W, l \in W}
    \cup {Function, Call}

----------------------------------------------------------------------------
(* History of the inputs, kept beside the program state.  `defined` is the  *)
(* live set of the IR's definition: wires written by a gate output and not  *)
(* freed since.                                                             *)

NoHeader == <<>>

InitHist ==
    [ first_header    |-> NoHeader,
      wellformed      |-> TRUE,   \* every input so far met the IR's rules
      available       |-> TRUE,   \* every Instance/Witness gate had a value waiting
      instance_values |-> 0,
      instance_gates  |-> 0,
      witness_values  |-> 0,
      witness_gates   |-> 0,
      instance_consumed |-> 0,    \* Instance gates that found a value waiting
      witness_consumed  |-> 0,    \* a prover's Witness gates that found a value waiting
      gates           |-> 0,
      defined         |-> {},
      freed           |-> {} ]    \* freed by a Free gate and not read or written since

\* The version format <major>.<minor>.<patch> as the properties read it:
\* three groups of digits separated by literal dots
StrictVersion(s) ==
    \E i, j \in 1..Len(s) :
        /\ i < j
        /\ AllDigits(s, 1, i - 1)
        /\ s[i] = "."
        /\ AllDigits(s, i + 1, j - 1)
        /\ s[j] = "."
        /\ AllDigits(s, j + 1, Len(s))

\* The header passes the checks made on a first header
ValidHeader(h) ==
    /\ from_bytes_le(h.field_characteristic) > 1
    /\ h.field_degree = 1
    /\ Trim(h.profile) \in {circ_arithmetic_simple, circ_boolean_simple}
    /\ Trim(h.profile) = circ_boolean_simple => from_bytes_le(h.field_characteristic) = 2
    /\ VERSION_REGEX(Trim(h.version))

InField(value, h) ==
    Len(value) > 0 /\ from_bytes_le(value) < from_bytes_le(h.field_characteristic)

\* A first header is valid; a later one is coherent with the first: the
\* same characteristic as a number, the same degree, profile and version
HeaderOk(hs, header) ==
    IF hs.first_header = NoHeader
    THEN ValidHeader(header)
    ELSE /\ from_bytes_le(header.field_characteristic)
               = from_bytes_le(hs.first_header.field_characteristic)
         /\ header.field_degree = hs.first_header.field_degree
         /\ header.profile = hs.first_header.profile
         /\ header.version = hs.first_header.version

HistHeader(hs, header) ==
    [hs EXCEPT !.first_header = IF @ = NoHeader THEN header ELSE @,
               !.wellformed = @ /\ HeaderOk(hs, header)]

HistValues(hs, header, values, field) ==
    LET h1 == HistHeader(hs, header)
    IN  [h1 EXCEPT !.wellformed =
                      @ /\ \A k \in 1..Len(values) : InField(values[k], h1.first_header),
                   ![field] = @ + Len(values)]

GateInputs(gate) ==
    CASE gate.kind \in {"AssertZero", "Copy", "AddConstant", "MulConstant", "Not"} -> {gate.inp}
      [] gate.kind \in {"Add", "Mul", "And", "Xor"} -> {gate.left, gate.right}
      [] OTHER -> {}

HasOutput(gate) ==
    gate.kind \in {"Constant", "Copy", "Add", "Mul", "AddConstant", "MulConstant",
                   "And", "Xor", "Not", "Instance", "Witness"}

FreeRange(gate) == gate.first .. unwrap_or(gate.last, gate.first)

ArithmeticKinds == {"Add", "Mul", "AddConstant", "MulConstant"}
BooleanKinds == {"And", "Xor", "Not"}

GateConstants(gate) ==
    CASE gate.kind = "Constant" -> {gate.value}
      [] gate.kind \in {"AddConstant", "MulConstant"} -> {gate.constant}
      [] OTHER -> {}

\* The circuit is arithmetic: the trimmed profile of the first header is
\* circ_arithmetic_simple.  It is not before any header.
IsArithmetic(hs) ==
    /\ hs.first_header # NoHeader
    /\ Trim(hs.first_header.profile) = circ_arithmetic_simple

\* The wires a Free gate names are live
FreeOk(hs, gate) == gate.kind = "Free" => FreeRange(gate) \subseteq hs.defined

\* The gate meets the IR's rules in the history state hs: it is coherent
\* with the profile, its constants are field elements (of the field of the
\* first header: there is none before it), its inputs are set and its
\* output is not.
GateOk(hs, gate) ==
    /\ gate.kind \in ArithmeticKinds => IsArithmetic(hs)
    /\ gate.kind \in BooleanKinds => ~IsArithmetic(hs)
    /\ \A k \in GateConstants(gate) :
           hs.first_header # NoHeader /\ InField(k, hs.first_header)
    /\ GateInputs(gate) \subseteq hs.defined
    /\ HasOutput(gate) => gate.out \notin hs.defined

HistGate(hs, gate, as_prover) ==
    LET uses_witness == gate.kind = "Witness" /\ as_prover
    IN  [hs EXCEPT
            !.wellformed = @ /\ GateOk(hs, gate) /\ FreeOk(hs, gate),
            !.available = @ /\ (gate.kind = "Instance" => hs.instance_gates < hs.instance_values)
                            /\ (uses_witness => hs.witness_gates < hs.witness_values),
            !.gates = @ + 1,
            !.instance_gates = IF gate.kind = "Instance" THEN @ + 1 ELSE @,
            !.witness_gates = IF gate.kind = "Witness" THEN @ + 1 ELSE @,
            !.instance_consumed =
                IF gate.kind = "Instance" /\ hs.instance_consumed < hs.instance_values
                THEN @ + 1 ELSE @,
            !.witness_consumed =
                IF uses_witness /\ hs.witness_consumed < hs.witness_values
                THEN @ + 1 ELSE @,
            !.defined = IF gate.kind = "Free" THEN @ \ FreeRange(gate)
                        ELSE IF HasOutput(gate) THEN @ \cup {gate.out}
                        ELSE @,
            !.freed = IF gate.kind = "Free" THEN @ \cup FreeRange(gate)
                      ELSE IF HasOutput(gate) THEN @ \ (GateInputs(gate) \cup {gate.out})
                      ELSE @ \ GateInputs(gate) ]

----------------------------------------------------------------------------
(* Actions *)

NoOp == [op |-> "new"]

\* No reduction has been asked for
NoReduction == [runs |-> <<>>]

\* No builder has been made, no renumbering asked for
NoBuilder == [calls |-> <<>>]
NoRenumbering == [runs |-> <<>>]

Init ==
    /\ v \in {NewValidator(FALSE), NewValidator(TRUE)}
    /\ pc = "running"
    /\ pending = 0
    /\ msgs = 0
    /\ result = <<>>
    /\ last = NoOp
    /\ prev = v
    /\ hist = InitHist
    /\ red = NoReduction
    /\ builder = NoBuilder
    /\ renum = NoRenumbering

CanStartMessage == pc = "running" /\ pending = 0

IngestInstance(header, values) ==
    /\ CanStartMessage
    /\ v' = ingest_instance(v, [header |-> header, common_inputs |-> values])
    /\ msgs' = msgs + 1
    /\ last' = [op |-> "ingest_instance", header |-> header, values |-> values]
    /\ prev' = v
    /\ hist' = HistValues(hist, header, values, "instance_values")
    /\ UNCHANGED <<pc, pending, result, red, builder, renum>>

IngestWitness(header, values) ==
    /\ CanStartMessage
    /\ v' = ingest_witness(v, [header |-> header, short_witness |-> values])
    /\ msgs' = msgs + 1
    /\ last' = [op |-> "ingest_witness", header |-> header, values |-> values]
    /\ prev' = v
    /\ hist' = HistValues(hist, header, values, "witness_values")
    /\ UNCHANGED <<pc, pending, result, red, builder, renum>>

\* ingest_relation up to the loop over relation.gates; n is relation.gates.len()
IngestRelation(header, n) ==
    /\ CanStartMessage
    /\ v' = ingest_header(v, header)
    /\ msgs' = msgs + 1
    /\ pending' = n
    /\ last' = [op |-> "ingest_relation", header |-> header, gates |-> n]
    /\ prev' = v
    /\ hist' = HistHeader(hist, header)
    /\ UNCHANGED <<pc, result, red, builder, renum>>

\* One iteration of the loop of ingest_relation
IngestGate(gate) ==
    /\ pc = "running"
    /\ pending > 0
    /\ IF Unimplemented(gate)
       THEN /\ pc' = "panicked"
            /\ UNCHANGED <<v, pending>>
       ELSE /\ v' = ingest_gate(v, gate)
            /\ pending' = pending - 1
            /\ pc' = pc
    /\ last' = [op |-> "ingest_gate", gate |-> gate, freed |-> hist.freed]
    /\ prev' = v
    /\ hist' = HistGate(hist, gate, v.as_prover)
    /\ UNCHANGED <<msgs, result, red, builder, renum>>

GetViolations ==
    /\ pc = "running"
    /\ pending = 0
    /\ pc' = "done"
    /\ v' = ensure_all_witness_values_consumed(ensure_all_instance_values_consumed(v))
    /\ result' = get_violations(v)
    /\ last' = [op |-> "get_violations"]
    /\ prev' = v
    /\ UNCHANGED <<pending, msgs, hist, red, builder, renum>>

----------------------------------------------------------------------------
(* Spec: a new validator ingests one relation message of up to MaxGates    *)
(* arbitrary gates over two wire ids, extended with the gates of           *)
(* test_validator_free_violations and two gates on three distinct wires.   *)

Wires == {0, 1}
Headers == {ArithmeticHeader, BooleanHeader}
Gates ==
    GatesOver(Wires, {<<1>>})
    \cup {Free(1, Some(2)), Free(4, None), Mul(2, 0, 1), Xor(2, 0, 1)}

Next ==
    \/ \E h \in Headers, n \in 1..MaxGates : ~v.got_header /\ IngestRelation(h, n)
    \/ \E g \in Gates : IngestGate(g)

Spec == Init /\ [][Next]_vars

----------------------------------------------------------------------------
(* FreeSpec: a new validator ingests one relation message of up to          *)
(* MaxFreeGates gates that define, read and free wires.                     *)

FreeGates ==
    {Constant(o, <<1>>) : o \in Wires}
    \cup {AssertZero(i) : i \in Wires}
    \cup {Copy(o, i) : o \in Wires, i \in Wires}
    \cup {Instance(o) : o \in Wires}
    \cup {Free(f, None) : f \in Wires}
    \cup {Free(f, Some(l)) : f \in Wires, l \in Wires}

FreeNext ==
    \/ \E h \in Headers, n \in 1..MaxFreeGates : ~v.got_header /\ IngestRelation(h, n)
    \/ \E g \in FreeGates : IngestGate(g)

FreeSpec == Init /\ [][FreeNext]_vars

----------------------------------------------------------------------------
(* WFSpec: messages in any order, every input meeting the IR's rules when   *)
(* it is ingested: valid identical headers, values and constants in the     *)
(* field, gates agreeing with the profile that read defined wires and write *)
(* undefined ones.  How many values are supplied, and when, is free.  The   *)
(* validator is a prover's.                                                 *)

WFValues == {<<1>>}
WFGates == GatesOver(Wires, {<<1>>, <<100>>})

WFHeaders == {h \in Headers : HeaderOk(hist, h)}
WFValueSeqs(h) ==
    {vals \in SeqsUpTo(WFValues, WFMaxValues) : \A k \in 1..Len(vals) : InField(vals[k], h)}

WFNext ==
    \/ \E h \in WFHeaders : \E vals \in WFValueSeqs(h) :
           msgs < WFMaxMsgs /\ IngestInstance(h, vals)
    \/ \E h \in WFHeaders : \E vals \in WFValueSeqs(h) :
           msgs < WFMaxMsgs /\ IngestWitness(h, vals)
    \/ \E h \in WFHeaders, n \in 0..(WFMaxGates - hist.gates) :
           msgs < WFMaxMsgs /\ IngestRelation(h, n)
    \/ \E g \in WFGates : GateOk(hist, g) /\ FreeOk(hist, g) /\ IngestGate(g)
    \/ GetViolations

WFInit == Init /\ v.as_prover

WFSpec == WFInit /\ [][WFNext]_vars

----------------------------------------------------------------------------
(* HeaderSpec: messages without values or gates, with arbitrary headers:    *)
(* every combination of two characteristics, degrees, profiles and          *)
(* versions, and variations of the example header in one field.             *)

Version_1_0 == <<"1", ".", "0">>
Version_dashes == <<"1", "-", "0", "-", "0">>
Version_padded == <<" ", "1", ".", "0", ".", "0", "\n">>
Profile_padded == <<" ">> \o circ_arithmetic_simple
Profile_other == <<"c", "i", "r", "c">>

HHeaders ==
    {Header(c, d, p, ver) :
        c \in {<<2>>, EXAMPLE_MODULUS}, d \in {1, 2},
        p \in {circ_arithmetic_simple, circ_boolean_simple},
        ver \in {Version_1_0_0, Version_1_0}}
    \cup {Header(c, 1, circ_arithmetic_simple, Version_1_0_0) : c \in {<<>>, <<1>>, <<101>>}}
    \cup {Header(EXAMPLE_MODULUS, 1, p, Version_1_0_0) : p \in {Profile_padded, Profile_other}}
    \cup {Header(EXAMPLE_MODULUS, 1, circ_arithmetic_simple, ver) :
              ver \in {Version_dashes, Version_padded}}

HNext ==
    \/ \E h \in HHeaders : msgs < HMaxMsgs /\ IngestInstance(h, <<>>)
    \/ \E h \in HHeaders : msgs < HMaxMsgs /\ IngestWitness(h, <<>>)
    \/ \E h \in HHeaders : msgs < HMaxMsgs /\ IngestRelation(h, 0)

HeaderSpec == Init /\ [][HNext]_vars

----------------------------------------------------------------------------
(* ValueSpec: instance and witness messages with arbitrary values, and      *)
(* relation messages of one gate with an arbitrary constant, under the      *)
(* two valid headers.                                                       *)

Values == {<<>>, <<1>>, <<2>>, EXAMPLE_MODULUS}
ConstantGates ==
    {Constant(0, k) : k \in Values}
    \cup {AddConstant(1, 0, k) : k \in Values}
    \cup {MulConstant(1, 0, k) : k \in Values}

VNext ==
    \/ \E h \in Headers, vals \in SeqsUpTo(Values, VMaxValues) :
           msgs < VMaxMsgs /\ IngestInstance(h, vals)
    \/ \E h \in Headers, vals \in SeqsUpTo(Values, VMaxValues) :
           msgs < VMaxMsgs /\ IngestWitness(h, vals)
    \/ \E h \in Headers, n \in 0..1 : msgs < VMaxMsgs /\ IngestRelation(h, n)
    \/ \E g \in ConstantGates : IngestGate(g)

ValueSpec == Init /\ [][VNext]_vars

----------------------------------------------------------------------------
(* InputSpec: instance and witness messages of up to IMaxValues values and  *)
(* relation messages of Instance and Witness gates, in any order, in both   *)
(* modes, ended by get_violations.  The value 2 is a field element under    *)
(* the arithmetic header and not under the boolean one.                     *)

InputValues == {<<2>>}
InputGates == {Instance(w) : w \in Wires} \cup {Witness(w) : w \in Wires}

INext ==
    \/ \E h \in Headers, vals \in SeqsUpTo(InputValues, IMaxValues) :
           msgs < IMaxMsgs /\ IngestInstance(h, vals)
    \/ \E h \in Headers, vals \in SeqsUpTo(InputValues, IMaxValues) :
           msgs < IMaxMsgs /\ IngestWitness(h, vals)
    \/ \E h \in Headers, n \in 0..(IMaxGates - hist.gates) :
           msgs < IMaxMsgs /\ IngestRelation(h, n)
    \/ \E g \in InputGates : IngestGate(g)
    \/ GetViolations

InputSpec == Init /\ [][INext]_vars

----------------------------------------------------------------------------
(* OrderSpec: messages of the three kinds in any order, in both modes,      *)
(* every one of which can append diagnostics: the header is the example     *)
(* header or one with degree 2 and a two-group version (two defects as      *)
(* first header, two differences as later header), the values are empty or  *)
(* equal to the characteristic, and the gates are those of                  *)
(* test_validator_free_violations, a constant out of the field and a gate   *)
(* reading two wires.                                                       *)

OHeaders == {ArithmeticHeader, Header(EXAMPLE_MODULUS, 2, circ_arithmetic_simple, Version_1_0)}
OValues == {<<>>, EXAMPLE_MODULUS}
OGates == {Free(1, Some(2)), Free(4, None), Constant(0, EXAMPLE_MODULUS), Mul(2, 0, 1)}

OValueSeqs ==
    SeqsUpTo(OValues, OMaxValues - hist.instance_values - hist.witness_values)

ONext ==
    \/ \E h \in OHeaders, vals \in OValueSeqs :
           msgs < OMaxMsgs /\ IngestInstance(h, vals)
    \/ \E h \in OHeaders, vals \in OValueSeqs :
           msgs < OMaxMsgs /\ IngestWitness(h, vals)
    \/ \E h \in OHeaders, n \in 0..(OMaxGates - hist.gates) :
           msgs < OMaxMsgs /\ IngestRelation(h, n)
    \/ \E g \in OGates : IngestGate(g)

OrderSpec == Init /\ [][ONext]_vars

----------------------------------------------------------------------------
(* Type ids of the typed gates (gates.rs), which the builders produce.      *)

TypeIds == {0, 1}

\* The gate with the type id of its wires attached
WithType(t, gate) ==
    [f \in DOMAIN gate \cup {"type"} |-> IF f = "type" THEN t ELSE gate[f]]

----------------------------------------------------------------------------
(* Gate-set reduction (exp_definable.rs).  A gate mask is the set of the    *)
(* features it contains.  The state of a reduction in progress is the       *)
(* record st: the temporary-wire counter, the output accumulator and the    *)
(* message of the panic that aborted it ("" when none did).                 *)

Features == {"ADD", "MUL", "ADDC", "MULC", "XOR", "AND", "NOT"}
SIMPLE == {}

contains_feature(mask, feature) == feature \in mask

\* tmp_wire: the next temporary wire, and the counter advanced
tmp_wire(st) == [wire |-> st.free_temporary_wire,
                 st   |-> [st EXCEPT !.free_temporary_wire = @ + 1]]

AnonCall(output_wires, input_wires, instance_count, witness_count, subcircuit) ==
    [kind |-> "AnonCall", output_wires |-> output_wires, input_wires |-> input_wires,
     instance_count |-> instance_count, witness_count |-> witness_count,
     subcircuit |-> subcircuit]
Switch(wire_id, output_wires, values, branches) ==
    [kind |-> "Switch", wire_id |-> wire_id, output_wires |-> output_wires,
     values |-> values, branches |-> branches]
For(name, start_val, end_val, output_wires, body) ==
    [kind |-> "For", name |-> name, start_val |-> start_val, end_val |-> end_val,
     output_wires |-> output_wires, body |-> body]
AbstractAnonCall(input_wires, instance_count, witness_count, body) ==
    [case |-> "AbstractAnonCall", input_wires |-> input_wires,
     instance_count |-> instance_count, witness_count |-> witness_count, body |-> body]
AbstractGateCall(name, input_wires) ==
    [case |-> "AbstractGateCall", name |-> name, input_wires |-> input_wires]
IterExprAnonCall(output_wires, input_wires, instance_count, witness_count, subcircuit) ==
    [body |-> "IterExprAnonCall", output_wires |-> output_wires,
     input_wires |-> input_wires, instance_count |-> instance_count,
     witness_count |-> witness_count, subcircuit |-> subcircuit]
IterExprCall(name, output_wires, input_wires) ==
    [body |-> "IterExprCall", name |-> name, output_wires |-> output_wires,
     input_wires |-> input_wires]

Relation(header, gate_mask, feat_mask, functions, gates) ==
    [header |-> header, gate_mask |-> gate_mask, feat_mask |-> feat_mask,
     functions |-> functions, gates |-> gates]

PanicAnd == "You are trying to eliminate an AND gate, but I don't know how to do that without a MUL gate"
PanicXor == "You are trying to eliminate a XOR gate, but I don't know how to do that without an ADD gate"
PanicInputRelation == "The input relation allows XOR or AND for a field of characteristic > 2"
PanicTargetMask == "You are trying to use XOR or AND for a field of characteristic > 2"

\* Mutant: the gate is put in front of the accumulator.
Push_in_front(st, gate) == [st EXCEPT !.output_gates = <<gate>> \o @]

\* output_gates.push(gate)
Push(st, gate) == [st EXCEPT !.output_gates = Append(@, gate)]

\* let mut new_subcircuit = Vec::new(): the same counter, an empty accumulator
NewVec(st) == [st EXCEPT !.output_gates = <<>>]

\* Mutant: the counter the body was reduced with is dropped.
PushRewritten_counter_not_threaded(st, inner, wrapped) ==
    IF inner.panic # "" THEN [st EXCEPT !.panic = inner.panic]
    ELSE Push(st, wrapped)

\* After the loop over a body: the rewritten body is wrapped and pushed on
\* the outer accumulator; a panic inside the body aborts the whole call.
PushRewritten(st, inner, wrapped) ==
    IF inner.panic # "" THEN [st EXCEPT !.panic = inner.panic]
    ELSE Push([st EXCEPT !.free_temporary_wire = inner.free_temporary_wire], wrapped)

RECURSIVE exp_definable_gate(_, _, _)
RECURSIVE exp_definable_body(_, _, _)
RECURSIVE exp_definable_branches(_, _, _)

\* for innergate in subcircuit { exp_definable_gate(innergate, ..) }
exp_definable_body(gates, st, gate_mask) ==
    IF Len(gates) = 0 \/ st.panic # "" THEN st
    ELSE exp_definable_body(Tail(gates), exp_definable_gate(Head(gates), st, gate_mask),
                            gate_mask)

\* for branch in branches { .. }: st.output_gates is new_branches
exp_definable_branches(branches, st, gate_mask) ==
    IF Len(branches) = 0 \/ st.panic # "" THEN st
    ELSE LET branch == Head(branches)
             st1 == IF branch.case = "AbstractAnonCall"
                    THEN LET new_body == exp_definable_body(branch.body, NewVec(st), gate_mask)
                         IN  PushRewritten(st, new_body,
                                 AbstractAnonCall(branch.input_wires, branch.instance_count,
                                                  branch.witness_count, new_body.output_gates))
                    ELSE Push(st, branch)
         IN  exp_definable_branches(Tail(branches), st1, gate_mask)

\* Mutant: the Xor gate that replaces the Add gate is pushed without
\* looking at the mask.
add_arm_no_recursion(gate, st, gate_mask) ==
    IF ~contains_feature(gate_mask, "ADD")
    THEN Push(st, Xor(gate.out, gate.left, gate.right))
    ELSE Push(st, gate)

\* The Add arm
add_arm(gate, st, gate_mask) ==
    IF ~contains_feature(gate_mask, "ADD")
    THEN exp_definable_gate(Xor(gate.out, gate.left, gate.right), st, gate_mask)
    ELSE Push(st, gate)

\* Mutant: an And gate is pushed whatever the mask.
and_arm_pushes(gate, st, gate_mask) == Push(st, gate)

\* The And arm
and_arm(gate, st, gate_mask) ==
    IF ~contains_feature(gate_mask, "AND")
    THEN IF contains_feature(gate_mask, "MUL")
         THEN Push(st, Mul(gate.out, gate.left, gate.right))
         ELSE [st EXCEPT !.panic = PanicAnd]
    ELSE Push(st, gate)

\* Mutant: the Xor gate becomes an Add gate without looking for ADD in the mask.
xor_arm_never_panics(gate, st, gate_mask) ==
    IF ~contains_feature(gate_mask, "XOR")
    THEN Push(st, Add(gate.out, gate.left, gate.right))
    ELSE Push(st, gate)

\* The Xor arm
xor_arm(gate, st, gate_mask) ==
    IF ~contains_feature(gate_mask, "XOR")
    THEN IF contains_feature(gate_mask, "ADD")
         THEN Push(st, Add(gate.out, gate.left, gate.right))
         ELSE [st EXCEPT !.panic = PanicXor]
    ELSE Push(st, gate)

\* Mutant: the temporary wire of the Not gate holds 0.
not_arm_constant_zero(gate, st, gate_mask) ==
    IF ~contains_feature(gate_mask, "NOT")
    THEN LET tmp == tmp_wire(st)
         IN  exp_definable_gate(Xor(gate.out, gate.inp, tmp.wire),
                                Push(tmp.st, Constant(tmp.wire, <<0, 0, 0, 0>>)),
                                gate_mask)
    ELSE Push(st, gate)

\* The Not arm
not_arm(gate, st, gate_mask) ==
    IF ~contains_feature(gate_mask, "NOT")
    THEN LET tmp == tmp_wire(st)
         IN  exp_definable_gate(Xor(gate.out, gate.inp, tmp.wire),
                                Push(tmp.st, Constant(tmp.wire, <<1, 0, 0, 0>>)),
                                gate_mask)
    ELSE Push(st, gate)

exp_definable_gate(gate, st, gate_mask) ==
    CASE gate.kind = "AnonCall" ->
            LET new_subcircuit == exp_definable_body(gate.subcircuit, NewVec(st), gate_mask)
            IN  PushRewritten(st, new_subcircuit,
                    AnonCall(gate.output_wires, gate.input_wires, gate.instance_count,
                             gate.witness_count, new_subcircuit.output_gates))
      [] gate.kind = "Switch" ->
            LET new_branches == exp_definable_branches(gate.branches, NewVec(st), gate_mask)
            IN  PushRewritten(st, new_branches,
                    Switch(gate.wire_id, gate.output_wires, gate.values,
                           new_branches.output_gates))
      [] gate.kind = "For" ->
            IF gate.body.body = "IterExprAnonCall"
            THEN LET new_subcircuit ==
                         exp_definable_body(gate.body.subcircuit, NewVec(st), gate_mask)
                 IN  PushRewritten(st, new_subcircuit,
                         For(gate.name, gate.start_val, gate.end_val, gate.output_wires,
                             IterExprAnonCall(gate.body.output_wires, gate.body.input_wires,
                                              gate.body.instance_count,
                                              gate.body.witness_count,
                                              new_subcircuit.output_gates)))
            ELSE Push(st, gate)
      [] gate.kind = "Add" -> add_arm(gate, st, gate_mask)
      [] gate.kind = "AddConstant" ->
            IF ~contains_feature(gate_mask, "ADDC")
            THEN LET tmp == tmp_wire(st)
                 IN  exp_definable_gate(Add(gate.out, gate.inp, tmp.wire),
                                        Push(tmp.st, Constant(tmp.wire, gate.constant)),
                                        gate_mask)
            ELSE Push(st, gate)
      [] gate.kind = "Mul" ->
            IF ~contains_feature(gate_mask, "MUL")
            THEN exp_definable_gate(And(gate.out, gate.left, gate.right), st, gate_mask)
            ELSE Push(st, gate)
      [] gate.kind = "MulConstant" ->
            IF ~contains_feature(gate_mask, "MULC")
            THEN LET tmp == tmp_wire(st)
                 IN  exp_definable_gate(Mul(gate.out, gate.inp, tmp.wire),
                                        Push(tmp.st, Constant(tmp.wire, gate.constant)),
                                        gate_mask)
            ELSE Push(st, gate)
      [] gate.kind = "And" -> and_arm(gate, st, gate_mask)
      [] gate.kind = "Xor" -> xor_arm(gate, st, gate_mask)
      [] gate.kind = "Not" -> not_arm(gate, st, gate_mask)
      [] OTHER -> Push(st, gate)

\* The mask contains a boolean primitive
HasBoolean(mask) ==
    \/ contains_feature(mask, "XOR")
    \/ contains_feature(mask, "AND")
    \/ contains_feature(mask, "NOT")

\* Mutant: only the requested mask is checked against the characteristic.
exp_definable_from_unchecked_input(relation, gate_mask, tmp_wire_start) ==
    LET is_two == from_bytes_le(relation.header.field_characteristic) = 2
        st == exp_definable_body(relation.gates,
                  [free_temporary_wire |-> tmp_wire_start, output_gates |-> <<>>,
                   panic |-> ""], gate_mask)
    IN  IF HasBoolean(gate_mask) /\ ~is_two THEN [panic |-> PanicTargetMask]
        ELSE IF st.panic # "" THEN [panic |-> st.panic]
        ELSE [panic |-> "",
              relation |-> Relation(relation.header, gate_mask, SIMPLE, <<>>, st.output_gates),
              free_temporary_wire |-> st.free_temporary_wire]

\* Mutant: the counter returned is the one the call was given.
exp_definable_from_counter_not_advanced(relation, gate_mask, tmp_wire_start) ==
    LET is_two == from_bytes_le(relation.header.field_characteristic) = 2
        st == exp_definable_body(relation.gates,
                  [free_temporary_wire |-> tmp_wire_start, output_gates |-> <<>>,
                   panic |-> ""], gate_mask)
    IN  IF HasBoolean(relation.gate_mask) /\ ~is_two THEN [panic |-> PanicInputRelation]
        ELSE IF HasBoolean(gate_mask) /\ ~is_two THEN [panic |-> PanicTargetMask]
        ELSE IF st.panic # "" THEN [panic |-> st.panic]
        ELSE [panic |-> "",
              relation |-> Relation(relation.header, gate_mask, SIMPLE, <<>>, st.output_gates),
              free_temporary_wire |-> tmp_wire_start]

\* What the call returns, or the panic that aborted it
exp_definable_from(relation, gate_mask, tmp_wire_start) ==
    LET is_two == from_bytes_le(relation.header.field_characteristic) = 2
        st == exp_definable_body(relation.gates,
                  [free_temporary_wire |-> tmp_wire_start, output_gates |-> <<>>,
                   panic |-> ""], gate_mask)
    IN  IF HasBoolean(relation.gate_mask) /\ ~is_two THEN [panic |-> PanicInputRelation]
        ELSE IF HasBoolean(gate_mask) /\ ~is_two THEN [panic |-> PanicTargetMask]
        ELSE IF st.panic # "" THEN [panic |-> st.panic]
        ELSE [panic |-> "",
              relation |-> Relation(relation.header, gate_mask, SIMPLE, <<>>, st.output_gates),
              free_temporary_wire |-> st.free_temporary_wire]

\* The last element of a non-empty sequence
Last(seq) == seq[Len(seq)]

\* A call of exp_definable_from: on the relation given at first, then on
\* the relation and the counter the previous call returned.
ExpDefinableFrom(gate_mask) ==
    /\ red.runs # <<>> => Last(red.runs).returned.panic = ""
    /\ LET relation == IF red.runs = <<>> THEN red.relation
                        ELSE Last(red.runs).returned.relation
           tmp_wire_start == IF red.runs = <<>> THEN red.tmp_wire_start
                             ELSE Last(red.runs).returned.free_temporary_wire
       IN  red' = [red EXCEPT !.runs = Append(@,
                      [relation |-> relation, gate_mask |-> gate_mask,
                       tmp_wire_start |-> tmp_wire_start,
                       returned |-> exp_definable_from(relation, gate_mask, tmp_wire_start)])]
    /\ UNCHANGED <<v, pc, pending, msgs, result, last, prev, hist, builder, renum>>

\* The reduction is given a relation, a mask and a temporary-wire counter
ReductionOf(relations, masks, counters) ==
    /\ v = NewValidator(FALSE)
    /\ pc = "running"
    /\ pending = 0
    /\ msgs = 0
    /\ result = <<>>
    /\ last = NoOp
    /\ prev = v
    /\ hist = InitHist
    /\ red \in {[relation |-> r, gate_mask |-> m, tmp_wire_start |-> t, runs |-> <<>>] :
                    r \in relations, m \in masks, t \in counters}
    /\ builder = NoBuilder
    /\ renum = NoRenumbering

----------------------------------------------------------------------------
(* RedSpec: a relation of up to RMaxGates gates, primitive or with bodies   *)
(* nested up to two levels, is reduced to any mask, RMaxRuns times.         *)

Primitives ==
    {Add(2, 0, 1), Mul(2, 0, 1), AddConstant(2, 0, <<1>>), MulConstant(2, 0, <<1>>),
     And(2, 0, 1), Xor(2, 0, 1), Not(2, 0), Copy(2, 0)}

\* The three constructs whose bodies are rewritten, around the body gates
Nest(gates) ==
    {AnonCall(<<2>>, <<0, 1>>, 0, 0, gates),
     Switch(0, <<2>>, << <<0>>, <<1>> >>,
            <<AbstractGateCall("f", <<0, 1>>), AbstractAnonCall(<<0, 1>>, 0, 0, gates)>>),
     For("i", 0, 1, <<2>>, IterExprAnonCall(<<2>>, <<0, 1>>, 0, 0, gates))}

Nested1 == UNION {Nest(<<Copy(3, 0), g>>) : g \in {And(2, 0, 1), AddConstant(2, 0, <<1>>), Not(2, 0)}}
Nested2 == UNION {Nest(<<g>>) : g \in Nest(<<Not(2, 0)>>)}

RedGates ==
    Primitives \cup Nested1 \cup Nested2
    \cup {For("i", 0, 1, <<2>>, IterExprCall("f", <<2>>, <<0, 1>>))}

ArithmeticMask == {"ADD", "MUL", "ADDC", "MULC"}
BooleanMask == {"XOR", "AND", "NOT"}

\* Gates several of which take a temporary wire, in a body and after it,
\* beside a Constant gate of the input
RedLong ==
    {<<AnonCall(<<3>>, <<0, 1>>, 0, 0, <<AddConstant(2, 0, <<1>>), Not(3, 2)>>),
       MulConstant(4, 3, <<1>>), Constant(5, <<1>>)>>,
     <<Switch(0, <<3>>, << <<0>>, <<1>> >>,
              <<AbstractAnonCall(<<0, 1>>, 0, 0, <<Not(2, 0)>>),
                AbstractAnonCall(<<0, 1>>, 0, 0, <<Not(2, 1)>>)>>),
       Not(4, 3)>>}

\* A relation that declares the function its For gate calls
RedFunctions == <<[name |-> "f", output_count |-> 1, input_count |-> 2,
                   instance_count |-> 0, witness_count |-> 0,
                   body |-> <<Xor(0, 1, 2)>>]>>

RedRelations ==
    {Relation([field_characteristic |-> c], m, SIMPLE, <<>>, gates) :
        c \in {<<2>>, EXAMPLE_MODULUS}, m \in {ArithmeticMask, BooleanMask},
        gates \in SeqsUpTo(RedGates, RMaxGates)}
    \cup {Relation([field_characteristic |-> c], m, SIMPLE, RedFunctions,
                    <<For("i", 0, 1, <<2>>, IterExprCall("f", <<2>>, <<0, 1>>)), g>>) :
              c \in {<<2>>, EXAMPLE_MODULUS}, m \in {ArithmeticMask, BooleanMask},
              g \in {Not(3, 2), AddConstant(3, 2, <<1>>)}}
    \cup {Relation([field_characteristic |-> c], m, SIMPLE, <<>>, gates) :
              c \in {<<2>>, EXAMPLE_MODULUS}, m \in {ArithmeticMask, BooleanMask},
              gates \in RedLong}

RedInit == ReductionOf(RedRelations, SUBSET Features, {10})

RedNext == Len(red.runs) < RMaxRuns /\ ExpDefinableFrom(red.gate_mask)

RedSpec == RedInit /\ [][RedNext]_vars

----------------------------------------------------------------------------
(* RoundTripSpec: a relation over characteristic 2 made of an Instance      *)
(* gate, a Witness gate and up to RTMaxGates primitive gates, each reading  *)
(* the wires just before its output, with or without a final AssertZero,    *)
(* is reduced to the boolean mask and the result to the arithmetic mask.    *)
(* The temporary wires start above the wires of the relation.               *)

GatesAt(out) ==
    {Add(out, out - 2, out - 1), Mul(out, out - 2, out - 1),
     And(out, out - 2, out - 1), Xor(out, out - 2, out - 1),
     Not(out, out - 1), Copy(out, out - 1)}
    \cup {AddConstant(out, out - 1, k) : k \in {<<0>>, <<1>>}}
    \cup {MulConstant(out, out - 1, k) : k \in {<<0>>, <<1>>}}

RECURSIVE Circuits(_)
Circuits(n) ==
    IF n = 0 THEN {<<>>}
    ELSE LET shorter == Circuits(n - 1)
         IN  shorter \cup {Append(c, g) : c \in {s \in shorter : Len(s) = n - 1},
                                          g \in GatesAt(n + 1)}

RoundTripRelations ==
    {Relation([field_characteristic |-> <<2>>], Features, SIMPLE, <<>>,
              <<Instance(0), Witness(1)>> \o c
                  \o (IF asserted THEN <<AssertZero(Len(c) + 1)>> ELSE <<>>)) :
        c \in Circuits(RTMaxGates), asserted \in BOOLEAN}

RTInit == ReductionOf(RoundTripRelations, {BooleanMask}, {RTMaxGates + 2})

RTNext ==
    \/ red.runs = <<>> /\ ExpDefinableFrom(BooleanMask)
    \/ Len(red.runs) = 1 /\ ExpDefinableFrom(ArithmeticMask)

RoundTripSpec == RTInit /\ [][RTNext]_vars

----------------------------------------------------------------------------
(* The reduction call by call.  One call of exp_definable_gate on a gate    *)
(* without body pushes gates and then either returns, or calls itself on    *)
(* the gate that replaces the one it was given, or panics.  The calls in    *)
(* progress on gates with bodies are the frames of a stack: a frame holds   *)
(* the gates still to be gone through, the accumulator they are pushed on   *)
(* and the gate or the branch that is rebuilt around the accumulator.       *)

Returns(pushed) == [pushed |-> pushed, recurse |-> None, panic |-> "", tmp |-> FALSE]
Recurses(pushed, gate, tmp) ==
    [pushed |-> pushed, recurse |-> Some(gate), panic |-> "", tmp |-> tmp]
Panics(message) == [pushed |-> <<>>, recurse |-> None, panic |-> message, tmp |-> FALSE]

\* Mutant: a Xor gate that is not allowed becomes an Add gate that is
\* reduced in turn.
exp_definable_gate_call_xor_recurses(gate, gate_mask, free_temporary_wire) ==
    CASE gate.kind = "Add" ->
            IF ~contains_feature(gate_mask, "ADD")
            THEN Recurses(<<>>, Xor(gate.out, gate.left, gate.right), FALSE)
            ELSE Returns(<<gate>>)
      [] gate.kind = "AddConstant" ->
            IF ~contains_feature(gate_mask, "ADDC")
            THEN Recurses(<<Constant(free_temporary_wire, gate.constant)>>,
                          Add(gate.out, gate.inp, free_temporary_wire), TRUE)
            ELSE Returns(<<gate>>)
      [] gate.kind = "Mul" ->
            IF ~contains_feature(gate_mask, "MUL")
            THEN Recurses(<<>>, And(gate.out, gate.left, gate.right), FALSE)
            ELSE Returns(<<gate>>)
      [] gate.kind = "MulConstant" ->
            IF ~contains_feature(gate_mask, "MULC")
            THEN Recurses(<<Constant(free_temporary_wire, gate.constant)>>,
                          Mul(gate.out, gate.inp, free_temporary_wire), TRUE)
            ELSE Returns(<<gate>>)
      [] gate.kind = "And" ->
            IF ~contains_feature(gate_mask, "AND")
            THEN IF contains_feature(gate_mask, "MUL")
                 THEN Returns(<<Mul(gate.out, gate.left, gate.right)>>)
                 ELSE Panics(PanicAnd)
            ELSE Returns(<<gate>>)
      [] gate.kind = "Xor" ->
            IF ~contains_feature(gate_mask, "XOR")
            THEN Recurses(<<>>, Add(gate.out, gate.left, gate.right), FALSE)
            ELSE Returns(<<gate>>)
      [] gate.kind = "Not" ->
            IF ~contains_feature(gate_mask, "NOT")
            THEN Recurses(<<Constant(free_temporary_wire, <<1, 0, 0, 0>>)>>,
                          Xor(gate.out, gate.inp, free_temporary_wire), TRUE)
            ELSE Returns(<<gate>>)
      [] OTHER -> Returns(<<gate>>)

\* The match arms of exp_definable_gate for the gates without body
exp_definable_gate_call(gate, gate_mask, free_temporary_wire) ==
    CASE gate.kind = "Add" ->
            IF ~contains_feature(gate_mask, "ADD")
            THEN Recurses(<<>>, Xor(gate.out, gate.left, gate.right), FALSE)
            ELSE Returns(<<gate>>)
      [] gate.kind = "AddConstant" ->
            IF ~contains_feature(gate_mask, "ADDC")
            THEN Recurses(<<Constant(free_temporary_wire, gate.constant)>>,
                          Add(gate.out, gate.inp, free_temporary_wire), TRUE)
            ELSE Returns(<<gate>>)
      [] gate.kind = "Mul" ->
            IF ~contains_feature(gate_mask, "MUL")
            THEN Recurses(<<>>, And(gate.out, gate.left, gate.right), FALSE)
            ELSE Returns(<<gate>>)
      [] gate.kind = "MulConstant" ->
            IF ~contains_feature(gate_mask, "MULC")
            THEN Recurses(<<Constant(free_temporary_wire, gate.constant)>>,
                          Mul(gate.out, gate.inp, free_temporary_wire), TRUE)
            ELSE Returns(<<gate>>)
      [] gate.kind = "And" ->
            IF ~contains_feature(gate_mask, "AND")
            THEN IF contains_feature(gate_mask, "MUL")
                 THEN Returns(<<Mul(gate.out, gate.left, gate.right)>>)
                 ELSE Panics(PanicAnd)
            ELSE Returns(<<gate>>)
      [] gate.kind = "Xor" ->
            IF ~contains_feature(gate_mask, "XOR")
            THEN IF contains_feature(gate_mask, "ADD")
                 THEN Returns(<<Add(gate.out, gate.left, gate.right)>>)
                 ELSE Panics(PanicXor)
            ELSE Returns(<<gate>>)
      [] gate.kind = "Not" ->
            IF ~contains_feature(gate_mask, "NOT")
            THEN Recurses(<<Constant(free_temporary_wire, <<1, 0, 0, 0>>)>>,
                          Xor(gate.out, gate.inp, free_temporary_wire), TRUE)
            ELSE Returns(<<gate>>)
      [] OTHER -> Returns(<<gate>>)

\* The gate has a body that exp_definable_gate goes through
HasBody(gate) ==
    \/ gate.kind = "AnonCall"
    \/ gate.kind = "For" /\ gate.body.body = "IterExprAnonCall"

BodyFrame(gates, wrap) ==
    [frame |-> "body", gates |-> gates, output_gates |-> <<>>, wrap |-> wrap]
SwitchFrame(branches, wrap) ==
    [frame |-> "switch", gates |-> branches, output_gates |-> <<>>, wrap |-> wrap]

\* The gate or the branch pushed once its body has been gone through
Rebuilt(wrap, new_body) ==
    IF "case" \in DOMAIN wrap
    THEN AbstractAnonCall(wrap.input_wires, wrap.instance_count, wrap.witness_count,
                          new_body)
    ELSE CASE wrap.kind = "AnonCall" ->
                 AnonCall(wrap.output_wires, wrap.input_wires, wrap.instance_count,
                          wrap.witness_count, new_body)
           [] wrap.kind = "Switch" ->
                 Switch(wrap.wire_id, wrap.output_wires, wrap.values, new_body)
           [] wrap.kind = "For" ->
                 For(wrap.name, wrap.start_val, wrap.end_val, wrap.output_wires,
                     IterExprAnonCall(wrap.body.output_wires, wrap.body.input_wires,
                                      wrap.body.instance_count, wrap.body.witness_count,
                                      new_body))

Top(stack) == stack[Len(stack)]
WithTop(stack, frame) == [stack EXCEPT ![Len(stack)] = frame]

\* The loop of exp_definable_from is over: every gate was gone through
Completed == Len(red.stack) = 1 /\ red.stack[1].gates = <<>>

\* exp_definable_gate is called on the next gate of the innermost body
CallGate ==
    /\ red.panic = ""
    /\ Top(red.stack).frame = "body" /\ Top(red.stack).gates # <<>>
    /\ LET top == Top(red.stack)
           gate == Head(top.gates)
           rest == [top EXCEPT !.gates = Tail(@)]
           r == exp_definable_gate_call(gate, red.gate_mask, red.free_temporary_wire)
       IN  IF HasBody(gate)
           THEN red' = [red EXCEPT !.calls = @ + 1,
                           !.stack = Append(WithTop(@, rest),
                               BodyFrame(IF gate.kind = "AnonCall" THEN gate.subcircuit
                                         ELSE gate.body.subcircuit, gate))]
           ELSE IF gate.kind = "Switch"
           THEN red' = [red EXCEPT !.calls = @ + 1,
                           !.stack = Append(WithTop(@, rest),
                                            SwitchFrame(gate.branches, gate))]
           ELSE IF r.panic # ""
           THEN red' = [red EXCEPT !.calls = @ + 1, !.panic = r.panic]
           ELSE IF r.recurse # None
           THEN red' = [red EXCEPT
                           !.calls = @ + 1,
                           !.chain = Append(@, gate.kind),
                           !.free_temporary_wire = IF r.tmp THEN @ + 1 ELSE @,
                           !.stack = WithTop(@,
                               [top EXCEPT !.gates = <<r.recurse[1]>> \o Tail(@),
                                           !.output_gates = @ \o r.pushed])]
           ELSE red' = [red EXCEPT
                           !.calls = @ + 1,
                           !.chain = <<>>,
                           !.longest = IF Len(red.chain) > @ THEN Len(red.chain) ELSE @,
                           !.stack = WithTop(@,
                               [rest EXCEPT !.output_gates = @ \o r.pushed])]
    /\ UNCHANGED <<v, pc, pending, msgs, result, last, prev, hist, builder, renum>>

\* for branch in branches: a branch with a body is gone through, any other
\* is pushed as it is
NextBranch ==
    /\ red.panic = ""
    /\ Top(red.stack).frame = "switch" /\ Top(red.stack).gates # <<>>
    /\ LET top == Top(red.stack)
           branch == Head(top.gates)
           rest == [top EXCEPT !.gates = Tail(@)]
       IN  IF branch.case = "AbstractAnonCall"
           THEN red' = [red EXCEPT !.stack =
                           Append(WithTop(@, rest), BodyFrame(branch.body, branch))]
           ELSE red' = [red EXCEPT !.stack =
                           WithTop(@, [rest EXCEPT !.output_gates = Append(@, branch)])]
    /\ UNCHANGED <<v, pc, pending, msgs, result, last, prev, hist, builder, renum>>

\* The body or the branches are gone through: what is rebuilt around them
\* is pushed on the accumulator of the enclosing call
PushRebuilt ==
    /\ red.panic = ""
    /\ Len(red.stack) > 1 /\ Top(red.stack).gates = <<>>
    /\ LET top == Top(red.stack)
           outer == SubSeq(red.stack, 1, Len(red.stack) - 1)
       IN  red' = [red EXCEPT !.stack =
                       WithTop(outer, [Top(outer) EXCEPT !.output_gates =
                                          Append(@, Rebuilt(top.wrap, top.output_gates))])]
    /\ UNCHANGED <<v, pc, pending, msgs, result, last, prev, hist, builder, renum>>

----------------------------------------------------------------------------
(* CallSpec: the gates of a relation of up to SMaxGates gates, primitive    *)
(* or with bodies nested up to two levels, are reduced to any mask, one     *)
(* call at a time.  A call that can be made is made.                        *)

CallGates ==
    Primitives
    \cup Nest(<<MulConstant(2, 0, <<1>>), AddConstant(2, 0, <<1>>)>>)
    \cup UNION {Nest(<<g>>) : g \in Nest(<<Not(2, 0)>>)}

CallInit ==
    /\ v = NewValidator(FALSE)
    /\ pc = "running"
    /\ pending = 0
    /\ msgs = 0
    /\ result = <<>>
    /\ last = NoOp
    /\ prev = v
    /\ hist = InitHist
    /\ builder = NoBuilder
    /\ renum = NoRenumbering
    /\ red \in {[gates |-> gates, gate_mask |-> m, tmp_wire_start |-> 10,
                  stack |-> <<BodyFrame(gates, None)>>, free_temporary_wire |-> 10,
                  panic |-> "", calls |-> 0, chain |-> <<>>, longest |-> 0] :
                    gates \in SeqsUpTo(CallGates, SMaxGates), m \in SUBSET Features}

CallNext == CallGate \/ NextBranch \/ PushRebuilt

CallSpec == CallInit /\ [][CallNext]_vars /\ WF_vars(CallNext)

----------------------------------------------------------------------------
(* The producers: wire allocation of the builders (builder.rs).             *)

\* The validator and the reduction are not running
NoConsumer ==
    /\ v = NewValidator(FALSE)
    /\ pc = "running"
    /\ pending = 0
    /\ msgs = 0
    /\ result = <<>>
    /\ last = NoOp
    /\ prev = v
    /\ hist = InitHist
    /\ red = NoReduction

\* u64 arithmetic wraps at 2^64; here at 2^WireIdBits
U64 == 2 ^ WireIdBits

\* WireRange::new(first_id, last_id)
WireRange(first_id, last_id) == [first_id |-> first_id, last_id |-> last_id]

\* HashMap::entry(key).or_insert(0)
or_insert_0(map, key) == IF key \in DOMAIN map THEN map ELSE (key :> 0) @@ map

\* alloc: the id handed out and the counters afterwards.  `out_id + 1`
\* overflows at the largest id: a build with overflow checks panics there,
\* the counter left as it was, a build without them wraps to 0.
alloc(type_id, next_available_id, overflow_checks) ==
    LET map == or_insert_0(next_available_id, type_id)
        out_id == map[type_id]
    IN  IF out_id + 1 >= U64 /\ overflow_checks
        THEN [panic |-> TRUE, out_id |-> out_id, next_available_id |-> map]
        ELSE [panic |-> FALSE, out_id |-> out_id,
              next_available_id |-> [map EXCEPT ![type_id] = (out_id + 1) % U64]]

\* multiple_alloc: the range handed out and the counters afterwards.
\* `first_id + n` overflows above the largest id and `next - 1` underflows
\* when next is 0: a build with overflow checks panics there (at the
\* addition before the counter is stored, at the subtraction after it),
\* a build without them wraps.
multiple_alloc(type_id, next_available_id, n, overflow_checks) ==
    LET map == or_insert_0(next_available_id, type_id)
        first_id == map[type_id]
        next == (first_id + n) % U64
        stored == [map EXCEPT ![type_id] = next]
    IN  IF first_id + n >= U64 /\ overflow_checks
        THEN [panic |-> TRUE, next_available_id |-> map]
        ELSE IF next = 0 /\ overflow_checks
        THEN [panic |-> TRUE, next_available_id |-> stored]
        ELSE [panic |-> FALSE,
              range |-> WireRange(first_id, (next - 1) % U64),
              next_available_id |-> stored]

\* A builder as far as allocation goes: GateBuilder::new starts from no
\* counter, new_function_builder from the declared output and input counts.
AllocatorOf(counters, builds) ==
    /\ NoConsumer
    /\ renum = NoRenumbering
    /\ builder \in {[next_available_id |-> c, initial |-> c, overflow_checks |-> o,
                      panicked |-> FALSE, calls |-> <<>>] :
                        c \in counters, o \in builds}

\* A call of alloc
Alloc(type_id) ==
    /\ ~builder.panicked
    /\ LET r == alloc(type_id, builder.next_available_id, builder.overflow_checks)
       IN  builder' = [builder EXCEPT
                          !.next_available_id = r.next_available_id,
                          !.panicked = r.panic,
                          !.calls = Append(@,
                              [op |-> "alloc", type_id |-> type_id, n |-> 1,
                               panic |-> r.panic,
                               first_id |-> IF r.panic THEN 0 ELSE r.out_id,
                               last_id |-> IF r.panic THEN 0 ELSE r.out_id,
                               before |-> builder.next_available_id,
                               after |-> r.next_available_id])]
    /\ UNCHANGED <<v, pc, pending, msgs, result, last, prev, hist, red, renum>>

\* A call of multiple_alloc
MultipleAlloc(type_id, n) ==
    /\ ~builder.panicked
    /\ LET r == multiple_alloc(type_id, builder.next_available_id, n,
                               builder.overflow_checks)
       IN  builder' = [builder EXCEPT
                          !.next_available_id = r.next_available_id,
                          !.panicked = r.panic,
                          !.calls = Append(@,
                              [op |-> "multiple_alloc", type_id |-> type_id, n |-> n,
                               panic |-> r.panic,
                               first_id |-> IF r.panic THEN 0 ELSE r.range.first_id,
                               last_id |-> IF r.panic THEN 0 ELSE r.range.last_id,
                               before |-> builder.next_available_id,
                               after |-> r.next_available_id])]
    /\ UNCHANGED <<v, pc, pending, msgs, result, last, prev, hist, red, renum>>

----------------------------------------------------------------------------
(* AllocSpec: up to AMaxAllocs allocations, single or of up to AMaxCount    *)
(* wires, over two type ids, on a builder that starts from any counters     *)
(* up to 1, built with or without overflow checks.                          *)

InitialCounters == UNION {[ts -> 0..1] : ts \in SUBSET TypeIds}

AllocInit == AllocatorOf(InitialCounters, BOOLEAN)

AllocNext ==
    /\ Len(builder.calls) < AMaxAllocs
    /\ \E type_id \in TypeIds :
          \/ Alloc(type_id)
          \/ \E n \in 0..AMaxCount : MultipleAlloc(type_id, n)

AllocSpec == AllocInit /\ [][AllocNext]_vars

----------------------------------------------------------------------------
(* The GateBuilder and the FunctionBuilder (builder.rs).  A Result is       *)
(* [ok |-> TRUE, value |-> x] or [ok |-> FALSE, err |-> message]; a call    *)
(* gives the struct it leaves, its Result, and whether it panicked.         *)

Ok(x) == [ok |-> TRUE, value |-> x]
Err(message) == [ok |-> FALSE, err |-> message]

Count_new(type_id, count) == [type_id |-> type_id, count |-> count]
Conversion_new(output_count, input_count) ==
    [output_count |-> output_count, input_count |-> input_count]

BuildCall(name, in_ids) == [kind |-> "Call", name |-> name, in_ids |-> in_ids]
BuildConvert(out_type_id, output_wire_count, in_type_id, in_first_id, in_last_id) ==
    [kind |-> "Convert", out_type_id |-> out_type_id,
     output_wire_count |-> output_wire_count, in_type_id |-> in_type_id,
     in_first_id |-> in_first_id, in_last_id |-> in_last_id]

\* gate.with_output(out_ids)
with_output(gate, out_ids) ==
    [f \in DOMAIN gate \cup {"out_ids"} |-> IF f = "out_ids" THEN out_ids ELSE gate[f]]

\* MessageBuilder::new
MessageBuilder_new(types, max_len) ==
    [sink |-> <<>>,
     public_inputs |-> [t \in 1..types |-> <<>>],
     private_inputs |-> [t \in 1..types |-> <<>>],
     relation |-> [plugins |-> <<>>, conversions |-> <<>>, functions |-> <<>>,
                   gates |-> <<>>],
     functions_size |-> 0,
     max_len |-> max_len]

flush_relation(self) ==
    [self EXCEPT !.sink = Append(@, [message |-> "relation", relation |-> self.relation]),
                 !.relation.gates = <<>>,
                 !.relation.functions = <<>>,
                 !.functions_size = 0]

\* The test that ends push_gate, push_plugin, push_conversion, push_function
flush_if_full(self) ==
    IF Len(self.relation.gates) + Len(self.relation.plugins)
          + Len(self.relation.conversions) + self.functions_size >= self.max_len
    THEN flush_relation(self)
    ELSE self

\* Mutant: the gate is buffered and no flush is asked for.
MessageBuilder_push_gate_never_flushes(self, gate) ==
    [self EXCEPT !.relation.gates = Append(@, gate)]

\* MessageBuilder::push_gate
MessageBuilder_push_gate(self, gate) ==
    flush_if_full([self EXCEPT !.relation.gates = Append(@, gate)])

MessageBuilder_push_plugin(self, plugin_name) ==
    flush_if_full([self EXCEPT !.relation.plugins = Append(@, plugin_name)])

MessageBuilder_push_conversion(self, conversion) ==
    flush_if_full([self EXCEPT !.relation.conversions = Append(@, conversion)])

\* MessageBuilder::push_function
MessageBuilder_push_function(self, function) ==
    flush_if_full([self EXCEPT
        !.functions_size = @ + (IF function.body.plugin THEN 1 ELSE Len(function.body.gates)),
        !.relation.functions = Append(@, function)])

\* The number of values held for all types
InputsLen(inputs) ==
    LET RECURSIVE sum(_)
        sum(t) == IF t = 0 THEN 0 ELSE Len(inputs[t]) + sum(t - 1)
    IN  sum(Len(inputs))

\* push_public_input_value (which = "public_inputs") and
\* push_private_input_value (which = "private_inputs"): the value is kept
\* for a type that is defined; the message is flushed when the values
\* held reach max_len.
push_input_value(self, which, type_id, value) ==
    IF type_id + 1 \in DOMAIN self[which]
    THEN LET pushed == [self EXCEPT ![which][type_id + 1] = Append(@, value)]
         IN  [ok |-> TRUE,
              self |-> IF InputsLen(pushed[which]) = pushed.max_len
                       THEN [pushed EXCEPT
                                !.sink = Append(@, [message |-> which,
                                                    inputs |-> pushed[which]]),
                                ![which] = [t \in DOMAIN @ |-> <<>>]]
                       ELSE pushed]
    ELSE [ok |-> FALSE, self |-> self]

\* for (i, values) in inputs.iter().enumerate() { for value in values {
\* push_..._input_value(i, value)? } }, from the value j of the type i on
RECURSIVE push_input_values(_, _, _, _, _)
push_input_values(self, which, inputs, i, j) ==
    IF i > Len(inputs) THEN [ok |-> TRUE, self |-> self]
    ELSE IF j > Len(inputs[i]) THEN push_input_values(self, which, inputs, i + 1, 1)
    ELSE LET r == push_input_value(self, which, i - 1, inputs[i][j])
         IN  IF r.ok THEN push_input_values(r.self, which, inputs, i, j + 1) ELSE r

\* check_wire_ranges_with_counts: one range per count, of that many wires
check_wire_ranges_with_counts(wire_ranges, counts) ==
    /\ Len(wire_ranges) = Len(counts)
    /\ \A k \in DOMAIN counts :
          wire_ranges[k].last_id - wire_ranges[k].first_id + 1 = counts[k].count

\* The map built from the values supplied: type id -> number of values,
\* for the types that are given values
count_map(inputs) ==
    [t \in {i - 1 : i \in {k \in DOMAIN inputs : inputs[k] # <<>>}} |-> Len(inputs[t + 1])]

\* output_count.iter().map(|count| multiple_alloc(..)).collect(), from
\* the count k on; the first allocation that panics ends it
RECURSIVE alloc_outputs(_, _, _, _, _)
alloc_outputs(output_count, k, next_available_id, overflow_checks, out_ids) ==
    IF k > Len(output_count)
    THEN [panic |-> FALSE, out_ids |-> out_ids, next_available_id |-> next_available_id]
    ELSE LET r == multiple_alloc(output_count[k].type_id, next_available_id,
                                 output_count[k].count, overflow_checks)
         IN  IF r.panic
             THEN [panic |-> TRUE, out_ids |-> out_ids,
                   next_available_id |-> r.next_available_id]
             ELSE alloc_outputs(output_count, k + 1, r.next_available_id,
                                overflow_checks, Append(out_ids, r.range))

ErrUnknownFunction == "function not declared"
ErrInputWires == "number of input wires mismatch."
ErrPublicInputs == "number of public inputs mismatch."
ErrPrivateInputs == "number of private inputs mismatch."
ErrConvertPublic == "A Convert gate does not contain a public input"
ErrConvertPrivate == "A Convert gate does not contain a private_inputs"
ErrTypeNotDefined == "Type id is not defined"
ErrFunctionExists == "Function already exists !"
ErrNotPlugin == "push_plugin must be called with a plugin function"
ErrTryFrom == "out of range integral type conversion attempted"

\* u8::try_from(i)? fails for the first vector of values that is not empty
\* and whose index does not fit a TypeId
try_from_fails(inputs) == \E i \in DOMAIN inputs : i - 1 >= 2 ^ 8 /\ inputs[i] # <<>>

\* in_last_id - in_first_id + 1, in u64: it overflows below 0 and above the
\* largest id, where a build with overflow checks panics and a build
\* without them wraps
input_wire_count(gate) == (gate.in_last_id - gate.in_first_id + 1) % U64
input_wire_count_overflows(gate) ==
    \/ gate.in_last_id < gate.in_first_id
    \/ gate.in_last_id - gate.in_first_id + 1 >= U64

\* GateBuilder::new
GateBuilder_new(types, max_len) ==
    [msg_build |-> MessageBuilder_new(types, max_len),
     known_functions |-> <<>>,
     known_plugins |-> {},
     known_conversions |-> {},
     next_available_id |-> <<>>]

\* The part of create_complex_gate after the checks: the values are
\* pushed, the outputs allocated and the gate pushed.
push_and_alloc(self, gate, public_inputs, private_inputs, output_count, overflow_checks) ==
    LET pub == push_input_values(self.msg_build, "public_inputs", public_inputs, 1, 1)
        pri == push_input_values(pub.self, "private_inputs", private_inputs, 1, 1)
        a == alloc_outputs(output_count, 1, self.next_available_id, overflow_checks, <<>>)
    IN  IF ~pub.ok
        THEN [self |-> [self EXCEPT !.msg_build = pub.self],
              result |-> Err(ErrTypeNotDefined), panic |-> FALSE]
        ELSE IF ~pri.ok
        THEN [self |-> [self EXCEPT !.msg_build = pri.self],
              result |-> Err(ErrTypeNotDefined), panic |-> FALSE]
        ELSE IF a.panic
        THEN [self |-> [self EXCEPT !.msg_build = pri.self,
                                    !.next_available_id = a.next_available_id],
              result |-> Err("panic"), panic |-> TRUE]
        ELSE [self |-> [self EXCEPT
                           !.msg_build = MessageBuilder_push_gate(pri.self,
                                             with_output(gate, a.out_ids)),
                           !.next_available_id = a.next_available_id],
              result |-> Ok(a.out_ids), panic |-> FALSE]

\* Mutant: every Convert gate adds its conversion to the relation.
GateBuilder_create_complex_gate_pushes_again(self, gate, public_inputs, private_inputs, overflow_checks) ==
    IF gate.kind = "Convert"
    THEN LET conversion == Conversion_new(
                 Count_new(gate.out_type_id, gate.output_wire_count),
                 Count_new(gate.in_type_id, input_wire_count(gate)))
             declared == [self EXCEPT
                             !.known_conversions = @ \cup {conversion},
                             !.msg_build = MessageBuilder_push_conversion(@, conversion)]
         IN  IF public_inputs # <<>>
             THEN [self |-> declared, result |-> Err(ErrConvertPublic), panic |-> FALSE]
             ELSE IF private_inputs # <<>>
             THEN [self |-> declared, result |-> Err(ErrConvertPrivate), panic |-> FALSE]
             ELSE push_and_alloc(declared, gate, public_inputs, private_inputs,
                                 <<Count_new(gate.out_type_id, gate.output_wire_count)>>,
                                 overflow_checks)
    ELSE [self |-> self, result |-> Err(""), panic |-> FALSE]

\* GateBuilder::create_complex_gate
GateBuilder_create_complex_gate(self, gate, public_inputs, private_inputs, overflow_checks) ==
    IF gate.kind = "Call"
    THEN IF gate.name \notin DOMAIN self.known_functions
         THEN [self |-> self, result |-> Err(ErrUnknownFunction), panic |-> FALSE]
         ELSE LET function_counts == self.known_functions[gate.name]
              IN  IF ~check_wire_ranges_with_counts(gate.in_ids, function_counts.input_count)
                  THEN [self |-> self, result |-> Err(ErrInputWires), panic |-> FALSE]
                  ELSE IF try_from_fails(public_inputs)
                  THEN [self |-> self, result |-> Err(ErrTryFrom), panic |-> FALSE]
                  ELSE IF count_map(public_inputs) # function_counts.public_count
                  THEN [self |-> self, result |-> Err(ErrPublicInputs), panic |-> FALSE]
                  ELSE IF try_from_fails(private_inputs)
                  THEN [self |-> self, result |-> Err(ErrTryFrom), panic |-> FALSE]
                  ELSE IF count_map(private_inputs) # function_counts.private_count
                  THEN [self |-> self, result |-> Err(ErrPrivateInputs), panic |-> FALSE]
                  ELSE push_and_alloc(self, gate, public_inputs, private_inputs,
                                      function_counts.output_count, overflow_checks)
    ELSE LET conversion == Conversion_new(
                 Count_new(gate.out_type_id, gate.output_wire_count),
                 Count_new(gate.in_type_id, input_wire_count(gate)))
             declared == IF conversion \notin self.known_conversions
                         THEN [self EXCEPT
                                  !.known_conversions = @ \cup {conversion},
                                  !.msg_build = MessageBuilder_push_conversion(@, conversion)]
                         ELSE self
         IN  IF input_wire_count_overflows(gate) /\ overflow_checks
             THEN [self |-> self, result |-> Err("panic"), panic |-> TRUE]
             ELSE IF public_inputs # <<>>
             THEN [self |-> declared, result |-> Err(ErrConvertPublic), panic |-> FALSE]
             ELSE IF private_inputs # <<>>
             THEN [self |-> declared, result |-> Err(ErrConvertPrivate), panic |-> FALSE]
             ELSE push_and_alloc(declared, gate, public_inputs, private_inputs,
                                 <<Count_new(gate.out_type_id, gate.output_wire_count)>>,
                                 overflow_checks)

\* The orders in which the iteration of a HashSet can give its elements:
\* every order, and not the same one from run to run
IterationsOf(set) ==
    {iteration \in [1..Cardinality(set) -> set] :
        \A c \in set : \E k \in DOMAIN iteration : iteration[k] = c}

\* for conversion in used_conversions: if known_conversions.insert(..) {
\* push_conversion(..) }, the set gone through in the order `iteration`
RECURSIVE declare_conversions(_, _)
declare_conversions(self, iteration) ==
    IF iteration = <<>> THEN self
    ELSE LET conversion == Head(iteration)
             declared == IF conversion \notin self.known_conversions
                         THEN [self EXCEPT
                                  !.known_conversions = @ \cup {conversion},
                                  !.msg_build = MessageBuilder_push_conversion(@, conversion)]
                         ELSE self
         IN  declare_conversions(declared, Tail(iteration))

\* Mutant: a name that is known is declared again.
GateBuilder_push_function_overwrites(self, function_with_infos, iteration) ==
    LET function == function_with_infos.function
        known == [self EXCEPT !.known_functions =
                     (function.name :>
                        [input_count |-> function.input_count,
                         output_count |-> function.output_count,
                         public_count |-> function_with_infos.public_count,
                         private_count |-> function_with_infos.private_count]) @@ @]
    IN  [self |-> [known EXCEPT
                      !.msg_build = MessageBuilder_push_function(@, function)],
         result |-> Ok(<<>>)]

\* GateBuilder::push_function; `iteration` is the order in which the
\* HashSet used_conversions gives its elements
GateBuilder_push_function(self, function_with_infos, iteration) ==
    LET function == function_with_infos.function
        known == [self EXCEPT !.known_functions =
                     (function.name :>
                        [input_count |-> function.input_count,
                         output_count |-> function.output_count,
                         public_count |-> function_with_infos.public_count,
                         private_count |-> function_with_infos.private_count]) @@ @]
        plugged == IF function.body.plugin /\ function.body.name \notin known.known_plugins
                   THEN [known EXCEPT
                            !.known_plugins = @ \cup {function.body.name},
                            !.msg_build = MessageBuilder_push_plugin(@, function.body.name)]
                   ELSE known
        converted == declare_conversions(plugged, iteration)
    IN  IF function.name \in DOMAIN self.known_functions
        THEN [self |-> self, result |-> Err(ErrFunctionExists)]
        ELSE [self |-> [converted EXCEPT
                           !.msg_build = MessageBuilder_push_function(@, function)],
              result |-> Ok(<<>>)]

\* GateBuilder::push_plugin
GateBuilder_push_plugin(self, function) ==
    IF function.body.plugin
    THEN GateBuilder_push_function(self,
             [function |-> function,
              public_count |-> function.body.public_count,
              private_count |-> function.body.private_count,
              used_conversions |-> {}], <<>>)
    ELSE [self |-> self, result |-> Err(ErrNotPlugin)]

\* GateBuilder::new_function_builder.  The input counts are added to the
\* counters in u64: a sum above the largest value panics in a build with
\* overflow checks, and no FunctionBuilder is made; it wraps in a build
\* without.
new_function_builder(self, name, output_count, input_count, overflow_checks) ==
    LET RECURSIVE outputs(_, _)
        outputs(k, map) ==
            IF k > Len(output_count) THEN map
            ELSE outputs(k + 1, (output_count[k].type_id :> output_count[k].count) @@ map)
        RECURSIVE inputs(_, _)
        inputs(k, map) ==
            IF k > Len(input_count) THEN [panic |-> FALSE, map |-> map]
            ELSE LET m0 == or_insert_0(map, input_count[k].type_id)
                     sum == m0[input_count[k].type_id] + input_count[k].count
                 IN  IF sum >= U64 /\ overflow_checks
                     THEN [panic |-> TRUE, map |-> m0]
                     ELSE inputs(k + 1, [m0 EXCEPT ![input_count[k].type_id] = sum % U64])
        next_available_id == inputs(1, outputs(1, <<>>))
    IN  IF next_available_id.panic
        THEN [panic |-> TRUE, fb |-> None]
        ELSE [panic |-> FALSE,
              fb |-> Some([name |-> name,
                           output_count |-> output_count,
                           input_count |-> input_count,
                           gates |-> <<>>,
                           public_count |-> <<>>,
                           private_count |-> <<>>,
                           known_functions |-> self.known_functions,
                           next_available_id |-> next_available_id.map,
                           used_conversions |-> {}])]

\* counts.iter().for_each(|(type_id, count)| *map.entry(type_id).or_insert(0) += count)
\* in u64, the HashMap `counts` gone through in the order `iteration`: a
\* sum above the largest value wraps in a build without overflow checks
\* and panics in a build with them, the sums made before it being kept
RECURSIVE add_counts(_, _, _, _)
add_counts(map, counts, iteration, overflow_checks) ==
    IF iteration = <<>> THEN [panic |-> FALSE, map |-> map]
    ELSE LET type_id == Head(iteration)
             m0 == or_insert_0(map, type_id)
             sum == m0[type_id] + counts[type_id]
         IN  IF sum >= U64 /\ overflow_checks
             THEN [panic |-> TRUE, map |-> m0]
             ELSE add_counts([m0 EXCEPT ![type_id] = sum % U64], counts,
                             Tail(iteration), overflow_checks)

\* The orders in which a call of create_complex_gate can go through the
\* private and the public counts of the function a Call gate names
CountIterations(self, gate) ==
    IF gate.kind = "Call" /\ gate.name \in DOMAIN self.known_functions
    THEN IterationsOf(DOMAIN self.known_functions[gate.name].private_count)
             \X IterationsOf(DOMAIN self.known_functions[gate.name].public_count)
    ELSE {<< <<>>, <<>> >>}

\* FunctionBuilder::create_complex_gate; `iterations` is the order in which
\* the private counts and the order in which the public counts of the
\* function are gone through.  An addition to the counts that overflows
\* panics in a build with overflow checks, the additions made before it
\* staying in the FunctionBuilder.
FunctionBuilder_create_complex_gate(self, gate, overflow_checks, iterations) ==
    LET checked ==
            IF gate.kind = "Call"
            THEN IF gate.name \notin DOMAIN self.known_functions
                 THEN [self |-> self, result |-> Err(ErrUnknownFunction)]
                 ELSE LET function_counts == self.known_functions[gate.name]
                          private == add_counts(self.private_count,
                                                function_counts.private_count,
                                                iterations[1], overflow_checks)
                          public == add_counts(self.public_count,
                                               function_counts.public_count,
                                               iterations[2], overflow_checks)
                      IN  IF ~check_wire_ranges_with_counts(gate.in_ids,
                                                           function_counts.input_count)
                          THEN [self |-> self, result |-> Err(ErrInputWires)]
                          ELSE IF private.panic
                          THEN [self |-> [self EXCEPT !.private_count = private.map],
                                result |-> Err("panic")]
                          ELSE IF public.panic
                          THEN [self |-> [self EXCEPT !.private_count = private.map,
                                                      !.public_count = public.map],
                                result |-> Err("panic")]
                          ELSE [self |-> [self EXCEPT !.private_count = private.map,
                                                      !.public_count = public.map],
                                result |-> Ok(function_counts.output_count)]
            ELSE IF input_wire_count_overflows(gate) /\ overflow_checks
            THEN [self |-> self, result |-> Err("panic")]
            ELSE [self |-> [self EXCEPT !.used_conversions = @ \cup
                      {Conversion_new(
                          Count_new(gate.out_type_id, gate.output_wire_count),
                          Count_new(gate.in_type_id, input_wire_count(gate)))}],
                  result |-> Ok(<<Count_new(gate.out_type_id, gate.output_wire_count)>>)]
        a == alloc_outputs(checked.result.value, 1, checked.self.next_available_id,
                           overflow_checks, <<>>)
    IN  IF ~checked.result.ok
        THEN [self |-> checked.self, result |-> checked.result,
              panic |-> checked.result.err = "panic"]
        ELSE IF a.panic
        THEN [self |-> [checked.self EXCEPT !.next_available_id = a.next_available_id],
              result |-> Err("panic"), panic |-> TRUE]
        ELSE [self |-> [checked.self EXCEPT
                           !.next_available_id = a.next_available_id,
                           !.gates = Append(@, with_output(gate, a.out_ids))],
              result |-> Ok(a.out_ids), panic |-> FALSE]

\* max_len: 100 * 1000
DefaultMaxLen == 100000

\* A GateBuilder over `types` types, with no FunctionBuilder borrowing it
BuilderOf(types, builds) ==
    /\ NoConsumer
    /\ renum = NoRenumbering
    /\ builder \in {[gb |-> GateBuilder_new(types, DefaultMaxLen), fb |-> None,
                      overflow_checks |-> o, panicked |-> FALSE, calls |-> <<>>] :
                        o \in builds}

\* The builder after a call, with the call recorded
Called(gb, fb, call, panic) ==
    [builder EXCEPT !.gb = gb, !.fb = fb, !.panicked = panic,
                    !.calls = Append(@, call)]

\* GateBuilder::create_complex_gate(gate, public_inputs, private_inputs)
CreateComplexGate(gate, public_inputs, private_inputs) ==
    /\ ~builder.panicked /\ builder.fb = None
    /\ LET r == GateBuilder_create_complex_gate(builder.gb, gate, public_inputs,
                     private_inputs, builder.overflow_checks)
       IN  builder' = Called(r.self, None,
                          [op |-> "GateBuilder::create_complex_gate", gate |-> gate,
                           public_inputs |-> public_inputs,
                           private_inputs |-> private_inputs,
                           result |-> r.result, panic |-> r.panic,
                           before |-> builder.gb, after |-> r.self], r.panic)
    /\ UNCHANGED <<v, pc, pending, msgs, result, last, prev, hist, red, renum>>

\* GateBuilder::push_function(function_with_infos)
PushFunction(function_with_infos) ==
    /\ ~builder.panicked /\ builder.fb = None
    /\ \E iteration \in IterationsOf(function_with_infos.used_conversions) :
          LET r == GateBuilder_push_function(builder.gb, function_with_infos, iteration)
          IN  builder' = Called(r.self, None,
                             [op |-> "push_function", infos |-> function_with_infos,
                              name |-> function_with_infos.function.name,
                              result |-> r.result, panic |-> FALSE,
                              before |-> builder.gb, after |-> r.self], FALSE)
    /\ UNCHANGED <<v, pc, pending, msgs, result, last, prev, hist, red, renum>>

\* GateBuilder::push_plugin(function)
PushPlugin(function) ==
    /\ ~builder.panicked /\ builder.fb = None
    /\ LET r == GateBuilder_push_plugin(builder.gb, function)
       IN  builder' = Called(r.self, None,
                          [op |-> "push_plugin", function |-> function,
                           name |-> function.name,
                           result |-> r.result, panic |-> FALSE,
                           before |-> builder.gb, after |-> r.self], FALSE)
    /\ UNCHANGED <<v, pc, pending, msgs, result, last, prev, hist, red, renum>>

\* GateBuilder::new_function_builder: the FunctionBuilder borrows the
\* known functions, so the GateBuilder is not called while it lives
NewFunctionBuilder(name, output_count, input_count) ==
    /\ ~builder.panicked /\ builder.fb = None
    /\ LET r == new_function_builder(builder.gb, name, output_count, input_count,
                                     builder.overflow_checks)
       IN  builder' = Called(builder.gb, r.fb,
                          [op |-> "new_function_builder",
                           result |-> IF r.panic THEN Err("panic") ELSE Ok(<<>>),
                           panic |-> r.panic, before |-> builder.gb,
                           after |-> unwrap_or(r.fb, builder.gb)], r.panic)
    /\ UNCHANGED <<v, pc, pending, msgs, result, last, prev, hist, red, renum>>

\* FunctionBuilder::create_complex_gate(gate)
FunctionBuilderCreateComplexGate(gate) ==
    /\ ~builder.panicked /\ builder.fb # None
    /\ \E iterations \in CountIterations(builder.fb[1], gate) :
          LET r == FunctionBuilder_create_complex_gate(builder.fb[1], gate,
                       builder.overflow_checks, iterations)
          IN  builder' = Called(builder.gb, Some(r.self),
                             [op |-> "FunctionBuilder::create_complex_gate", gate |-> gate,
                              result |-> r.result, panic |-> r.panic,
                              before |-> builder.fb[1], after |-> r.self], r.panic)
    /\ UNCHANGED <<v, pc, pending, msgs, result, last, prev, hist, red, renum>>

----------------------------------------------------------------------------
(* BuilderSpec: up to BMaxCalls calls on a GateBuilder over two types:      *)
(* functions and plugins are declared, some under a name already taken,     *)
(* some using a conversion; Call and Convert gates are created with         *)
(* matching and mismatching wires and values; a FunctionBuilder is made     *)
(* and creates Call and Convert gates.                                      *)

BodyOfGates(gates) == [plugin |-> FALSE, gates |-> gates]
PluginBody(name, operation, public_count, private_count) ==
    [plugin |-> TRUE, name |-> name, operation |-> operation,
     public_count |-> public_count, private_count |-> private_count]
Function_new(name, output_count, input_count, body) ==
    [name |-> name, output_count |-> output_count, input_count |-> input_count,
     body |-> body]
FunctionWithInfos(function, public_count, private_count, used_conversions) ==
    [function |-> function, public_count |-> public_count,
     private_count |-> private_count, used_conversions |-> used_conversions]

ConvertA == BuildConvert(1, 1, 0, 0, 1)
ConvertB == BuildConvert(0, 2, 1, 0, 0)
ConversionA == Conversion_new(Count_new(1, 1), Count_new(0, 2))
ConversionB == Conversion_new(Count_new(0, 2), Count_new(1, 1))

BFunctions ==
    {FunctionWithInfos(
         Function_new("f", <<Count_new(0, 2)>>, <<Count_new(0, 1)>>,
                      BodyOfGates(<<WithType(0, Constant(0, <<1>>))>>)),
         <<>>, <<>>, {}),
     FunctionWithInfos(
         Function_new("f", <<Count_new(0, 1)>>, <<>>, BodyOfGates(<<>>)),
         (0 :> 1), <<>>, {ConversionA}),
     FunctionWithInfos(
         Function_new("g", <<Count_new(0, 1), Count_new(1, 1)>>, <<>>,
                      BodyOfGates(<<WithType(0, Instance(0)), WithType(1, Witness(0))>>)),
         (0 :> 1), (1 :> 1), {ConversionA, ConversionB})}

BPlugins ==
    {Function_new("z", <<Count_new(0, 0)>>, <<>>, PluginBody("vector", "add", <<>>, <<>>)),
     Function_new("f", <<Count_new(0, 1)>>, <<>>, PluginBody("vector", "mul", <<>>, <<>>)),
     Function_new("p", <<>>, <<>>, BodyOfGates(<<>>))}

\* Calls with all they are given: the gate, the public and the private values
BCalls ==
    {<<BuildCall("f", <<WireRange(0, 0)>>), <<>>, <<>>>>,
     <<BuildCall("f", <<WireRange(0, 1)>>), <<>>, <<>>>>,
     <<BuildCall("f", <<WireRange(0, 0)>>), << <<EXAMPLE_MODULUS>> >>, <<>>>>,
     <<BuildCall("g", <<>>), << <<EXAMPLE_MODULUS>> >>, << <<>>, <<EXAMPLE_MODULUS>> >> >>,
     <<BuildCall("g", <<>>), << <<EXAMPLE_MODULUS>> >>, << <<EXAMPLE_MODULUS>> >> >>,
     <<BuildCall("z", <<>>), <<>>, <<>>>>,
     <<BuildCall("u", <<>>), <<>>, <<>>>>,
     <<ConvertA, <<>>, <<>>>>,
     <<ConvertA, << <<EXAMPLE_MODULUS>> >>, <<>>>>,
     <<ConvertB, <<>>, <<>>>>}

BFunctionBuilders ==
    {<<"h", <<Count_new(0, 1)>>, <<Count_new(0, 1)>>>>, <<"k", <<>>, <<>>>>}

BBodyCalls ==
    {BuildCall("f", <<WireRange(1, 1)>>), BuildCall("f", <<>>), BuildCall("g", <<>>),
     BuildCall("z", <<>>), BuildCall("u", <<>>), ConvertA}

BuilderInit == BuilderOf(2, BOOLEAN)

BuilderNext ==
    /\ Len(builder.calls) < BMaxCalls
    /\ \/ \E c \in BCalls : CreateComplexGate(c[1], c[2], c[3])
       \/ \E f \in BFunctions : PushFunction(f)
       \/ \E f \in BPlugins : PushPlugin(f)
       \/ \E b \in BFunctionBuilders : NewFunctionBuilder(b[1], b[2], b[3])
       \/ \E gate \in BBodyCalls : FunctionBuilderCreateComplexGate(gate)

BuilderSpec == BuilderInit /\ [][BuilderNext]_vars

----------------------------------------------------------------------------
(* Renumbering of the output wires of a function body (gates.rs).  A gate   *)
(* carries the field id of its wires (WithType); Convert, AnonCall and Call *)
(* carry wire lists, whose elements are single wires or inclusive ranges.   *)
(* expand_wirelist, replace_wire_id and replace_wire_in_wirelist are        *)
(* imported from structs::wire; the test of replace_output_wires shows a    *)
(* range that holds a replaced wire come back as the list of its wires.     *)

Wire(field_id, id) == [elem |-> "Wire", field_id |-> field_id, id |-> id]
WireListRange(field_id, first, last_) ==
    [elem |-> "WireRange", field_id |-> field_id, first |-> first, last |-> last_]

Convert(output, input) ==
    [kind |-> "Convert", output_wires |-> output, input_wires |-> input]
GateCall(name, output_wires, input_wires) ==
    [kind |-> "Call", name |-> name, output_wires |-> output_wires,
     input_wires |-> input_wires]

\* The (field id, wire id) pairs a wire list stands for, in order
RECURSIVE expand_wirelist(_)
expand_wirelist(wirelist) ==
    IF wirelist = <<>> THEN <<>>
    ELSE LET e == Head(wirelist)
             rest == expand_wirelist(Tail(wirelist))
         IN  IF e.elem = "Wire" THEN << <<e.field_id, e.id>> >> \o rest
             ELSE [j \in 1..(e.last - e.first + 1) |-> <<e.field_id, e.first + j - 1>>]
                      \o rest

replace_wire_id(field_id, old_field_id, wire, old_wire, new_wire) ==
    IF wire = old_wire /\ field_id = old_field_id THEN new_wire ELSE wire

\* A list that holds the wire becomes the list of its single wires, with
\* the wire replaced; a list that does not hold it is left as it is.
replace_wire_in_wirelist(wirelist, old_field_id, old_wire, new_wire) ==
    LET wires == expand_wirelist(wirelist)
        updated == \E j \in DOMAIN wires : wires[j] = <<old_field_id, old_wire>>
    IN  IF updated
        THEN [j \in DOMAIN wires |->
                 Wire(wires[j][1],
                      replace_wire_id(wires[j][1], old_field_id, wires[j][2],
                                      old_wire, new_wire))]
        ELSE wirelist

\* The arms of the match for the gates that name wires to replace
replace_in_gate(gate, old_field_id, old_wire, new_wire) ==
    IF gate.kind \in {"Convert", "AnonCall", "Call"}
    THEN [gate EXCEPT
             !.output_wires = replace_wire_in_wirelist(@, old_field_id, old_wire, new_wire),
             !.input_wires = replace_wire_in_wirelist(@, old_field_id, old_wire, new_wire)]
    ELSE [f \in DOMAIN gate |->
             IF f \in {"out", "inp", "left", "right"}
             THEN replace_wire_id(gate.type, old_field_id, gate[f], old_wire, new_wire)
             ELSE gate[f]]

\* The i-th output wire is given the number of the outputs of its field
\* before it: let count = map.entry(field_id).or_insert(0); *count += 1
CountBefore(expanded, i) ==
    Cardinality({j \in 1..(i - 1) : expanded[j][1] = expanded[i][1]})

\* The two nested loops of a body without For gate, from output i and
\* gate k on: a Free gate that holds the output returns the error and
\* leaves the gates as they are at that point.
RECURSIVE replace_from(_, _, _, _)
replace_from(gates, expanded, i, k) ==
    IF i > Len(expanded) THEN [result |-> "Ok", gates |-> gates]
    ELSE IF k > Len(gates) THEN replace_from(gates, expanded, i + 1, 1)
    ELSE LET gate == gates[k]
             old_field_id == expanded[i][1]
             old_wire == expanded[i][2]
             new_wire == CountBefore(expanded, i)
         IN  IF gate.kind = "Free"
             THEN IF /\ gate.type = old_field_id
                     /\ IF gate.last = None THEN gate.first = old_wire
                        ELSE gate.first <= old_wire /\ gate.last[1] >= old_wire
                  THEN [result |-> "Err", gates |-> gates]
                  ELSE replace_from(gates, expanded, i, k + 1)
             ELSE replace_from(
                      [gates EXCEPT ![k] = replace_in_gate(gate, old_field_id,
                                                           old_wire, new_wire)],
                      expanded, i, k + 1)

\* Mutant: the body with a For gate is rewritten like any other.
replace_output_wires_without_copies(gates, output_wires) ==
    replace_from(gates, expand_wirelist(output_wires), 1, 1)

\* Mutant: the Copy gates are appended for every body.
replace_output_wires_always_copies(gates, output_wires) ==
    LET expanded == expand_wirelist(output_wires)
    IN  [result |-> "Ok",
         gates |-> gates \o [i \in DOMAIN expanded |->
                                WithType(expanded[i][1],
                                         Copy(CountBefore(expanded, i), expanded[i][2]))]]

\* What the call returns and the gates it leaves
replace_output_wires(gates, output_wires) ==
    LET expanded == expand_wirelist(output_wires)
    IN  IF \E k \in DOMAIN gates : gates[k].kind = "For"
        THEN [result |-> "Ok",
              gates |-> gates \o [i \in DOMAIN expanded |->
                                     WithType(expanded[i][1],
                                              Copy(CountBefore(expanded, i),
                                                   expanded[i][2]))]]
        ELSE replace_from(gates, expanded, 1, 1)

\* A call of replace_output_wires
ReplaceOutputWires(gates, output_wires) ==
    /\ renum' = [renum EXCEPT !.runs = Append(@,
                     [gates |-> gates, output_wires |-> output_wires,
                      returned |-> replace_output_wires(gates, output_wires)])]
    /\ UNCHANGED <<v, pc, pending, msgs, result, last, prev, hist, red, builder>>

\* The list of the canonical ids of a list of output wires
CanonicalOutputs(output_wires) ==
    LET expanded == expand_wirelist(output_wires)
    IN  [i \in DOMAIN expanded |-> Wire(expanded[i][1], CountBefore(expanded, i))]

----------------------------------------------------------------------------
(* RenumSpec: a body of up to NMaxGates gates over two field ids, with or   *)
(* without a For gate, and a list of up to NMaxOutputs elements naming      *)
(* pairwise distinct output wires, is renumbered; the gates returned are    *)
(* then renumbered again with the canonical list.                           *)

RenGates ==
    {WithType(0, Constant(w, <<1>>)) : w \in 0..2}
    \cup {WithType(1, Constant(1, <<1>>)), WithType(0, Add(3, 1, 2)),
          WithType(0, AssertZero(2)),
          WithType(0, Free(1, None)), WithType(0, Free(1, Some(2))),
          WithType(1, Free(1, None)),
          GateCall("f", <<WireListRange(0, 1, 2)>>, <<Wire(0, 0)>>),
          Convert(<<WireListRange(1, 0, 1)>>, <<WireListRange(0, 1, 2)>>),
          AnonCall(<<Wire(0, 2)>>, <<WireListRange(0, 0, 1)>>, <<>>, <<>>,
                   <<WithType(0, Constant(2, <<1>>))>>),
          For("i", 0, 1, <<WireListRange(0, 1, 2)>>,
              IterExprCall("f", <<"i">>, <<>>))}

RenOutputs ==
    {o \in SeqsUpTo({Wire(0, 0), Wire(0, 1), Wire(0, 2), Wire(1, 1),
                     WireListRange(0, 1, 2), WireListRange(0, 0, 1)}, NMaxOutputs) :
        LET expanded == expand_wirelist(o)
        IN  \A i, j \in DOMAIN expanded : i # j => expanded[i] # expanded[j]}

RenumInit ==
    /\ NoConsumer
    /\ builder = NoBuilder
    /\ renum \in {[gates |-> g, output_wires |-> o, runs |-> <<>>] :
                      g \in SeqsUpTo(RenGates, NMaxGates), o \in RenOutputs}

RenumNext ==
    \/ renum.runs = <<>> /\ ReplaceOutputWires(renum.gates, renum.output_wires)
    \/ /\ Len(renum.runs) = 1
       /\ renum.runs[1].returned.result = "Ok"
       /\ ReplaceOutputWires(renum.runs[1].returned.gates,
                             CanonicalOutputs(renum.output_wires))

RenumSpec == RenumInit /\ [][RenumNext]_vars

----------------------------------------------------------------------------
(* The gates of a FunctionBuilder, its input wires and finish (builder.rs). *)
(* A BuildGate names its type and its input wires; with_output makes the    *)
(* Gate, on the wire allocated for it.  A gate without output is given      *)
(* NO_OUTPUT, the largest WireId.                                           *)

NO_OUTPUT == U64 - 1

BuildConstant(type_id, value) ==
    [build |-> "Constant", type_id |-> type_id, value |-> value]
BuildAssertZero(type_id, inp) ==
    [build |-> "AssertZero", type_id |-> type_id, inp |-> inp]
BuildAdd(type_id, left, right) ==
    [build |-> "Add", type_id |-> type_id, left |-> left, right |-> right]
BuildPublicInput(type_id, value) ==
    [build |-> "PublicInput", type_id |-> type_id, value |-> value]
BuildPrivateInput(type_id, value) ==
    [build |-> "PrivateInput", type_id |-> type_id, value |-> value]

has_output(gate) == gate.build # "AssertZero"

\* gate.with_output(out_id): the public and the private input gates are
\* the Instance and the Witness gates of gates.rs
BuildGate_with_output(gate, out_id) ==
    WithType(gate.type_id,
        CASE gate.build = "Constant" -> Constant(out_id, gate.value)
          [] gate.build = "AssertZero" -> AssertZero(gate.inp)
          [] gate.build = "Add" -> Add(out_id, gate.left, gate.right)
          [] gate.build = "PublicInput" -> Instance(out_id)
          [] gate.build = "PrivateInput" -> Witness(out_id))

\* FunctionBuilder::input_wires: the (type id, wire id) pairs.  The end of
\* a range, *type_id_count + count.count, is a sum in u64: above the
\* largest value it panics in a build with overflow checks and wraps to
\* an end below the start, an empty range, in a build without.
input_wires(self, overflow_checks) ==
    LET RECURSIVE outputs(_, _)
        outputs(k, map) ==
            IF k > Len(self.output_count) THEN map
            ELSE outputs(k + 1, (self.output_count[k].type_id :> self.output_count[k].count)
                                   @@ map)
        RECURSIVE inputs(_, _, _)
        inputs(k, map, result_) ==
            IF k > Len(self.input_count) THEN [panic |-> FALSE, result |-> result_]
            ELSE LET count == self.input_count[k]
                     m0 == or_insert_0(map, count.type_id)
                     type_id_count == m0[count.type_id]
                     overflows == type_id_count + count.count >= U64
                 IN  IF overflows /\ overflow_checks
                     THEN [panic |-> TRUE, result |-> result_]
                     ELSE inputs(k + 1, m0,
                                 result_ \o [j \in 1..(IF overflows THEN 0 ELSE count.count) |->
                                                <<count.type_id, type_id_count + j - 1>>])
    IN  inputs(1, outputs(1, <<>>), <<>>)

\* Mutant: a public input gate is counted as a private one.
FunctionBuilder_create_gate_counts_private(self, gate, overflow_checks) ==
    LET a == IF has_output(gate)
             THEN alloc(gate.type_id, self.next_available_id, overflow_checks)
             ELSE [panic |-> FALSE, out_id |-> NO_OUTPUT,
                   next_available_id |-> self.next_available_id]
        counted == IF gate.build \in {"PublicInput", "PrivateInput"}
                   THEN [self EXCEPT !.private_count =
                            add_counts(@, gate.type_id :> 1, <<gate.type_id>>, FALSE).map]
                   ELSE self
    IN  [self |-> [counted EXCEPT
                      !.next_available_id = a.next_available_id,
                      !.gates = Append(@, BuildGate_with_output(gate, a.out_id))],
         out_id |-> a.out_id, panic |-> FALSE]

\* FunctionBuilder::create_gate
FunctionBuilder_create_gate(self, gate, overflow_checks) ==
    LET a == IF has_output(gate)
             THEN alloc(gate.type_id, self.next_available_id, overflow_checks)
             ELSE [panic |-> FALSE, out_id |-> NO_OUTPUT,
                   next_available_id |-> self.next_available_id]
        allocated == [self EXCEPT !.next_available_id = a.next_available_id]
        which == CASE gate.build = "PublicInput" -> "public_count"
                   [] gate.build = "PrivateInput" -> "private_count"
                   [] OTHER -> "none"
        count == IF which = "none" THEN [panic |-> FALSE, map |-> <<>>]
                 ELSE add_counts(allocated[which], gate.type_id :> 1, <<gate.type_id>>,
                                 overflow_checks)
        counted == IF which = "none" THEN allocated
                   ELSE [allocated EXCEPT ![which] = count.map]
    IN  IF a.panic
        THEN [self |-> allocated, out_id |-> a.out_id, panic |-> TRUE]
        ELSE IF count.panic
        THEN [self |-> counted, out_id |-> a.out_id, panic |-> TRUE]
        ELSE [self |-> [counted EXCEPT
                           !.gates = Append(@, BuildGate_with_output(gate, a.out_id))],
              out_id |-> a.out_id, panic |-> FALSE]

\* add_types_to_wire_ranges: the ranges with the types of the counts
add_types_to_wire_ranges(wire_ranges, counts) ==
    [k \in DOMAIN wire_ranges |->
        WireListRange(counts[k].type_id, wire_ranges[k].first_id, wire_ranges[k].last_id)]

\* replace_output_wires(gates, output_wires, known_functions), the revision
\* that FunctionBuilder::finish calls; gates.rs holds the revision without
\* known_functions, whose Call gates carry typed wire lists.  The pairs
\* (type id, wire id) inside the output and input ranges of the Call and
\* Convert gates of the body, typed by the signatures of known_functions,
\* are not to be modified.  For each output wire in order, its canonical id
\* being the number of outputs of its type before it: an output that is
\* not to be modified gets the trailing gate Copy(type, canonical id, old
\* id); any other output is rewritten in place in the gates of the body as
\* they stand, and a Free gate that holds it is the error.  The builder
\* creates no bulk allocation gate.
replace_output_wires_with_known_functions(gates, output_wires, known_functions) ==
    LET expanded == expand_wirelist(output_wires)
        Pairs(wirelist) ==
            LET e == expand_wirelist(wirelist) IN {e[j] : j \in DOMAIN e}
        RangesOf(gate) ==
            IF "out_ids" \notin DOMAIN gate THEN {}
            ELSE IF gate.kind = "Call"
            THEN Pairs(add_types_to_wire_ranges(
                           gate.out_ids, known_functions[gate.name].output_count))
                 \cup Pairs(add_types_to_wire_ranges(
                                gate.in_ids, known_functions[gate.name].input_count))
            ELSE Pairs(<<WireListRange(gate.out_type_id, gate.out_ids[1].first_id,
                                       gate.out_ids[1].last_id),
                         WireListRange(gate.in_type_id, gate.in_first_id,
                                       gate.in_last_id)>>)
        do_no_modify_wires == UNION {RangesOf(gates[k]) : k \in DOMAIN gates}
        RECURSIVE in_body(_, _, _)
        in_body(body, i, k) ==
            IF k > Len(body) THEN [result |-> "Ok", gates |-> body]
            ELSE LET gate == body[k]
                 IN  IF "out_ids" \in DOMAIN gate THEN in_body(body, i, k + 1)
                     ELSE IF gate.kind = "Free"
                     THEN IF /\ gate.type = expanded[i][1]
                             /\ gate.first <= expanded[i][2]
                             /\ unwrap_or(gate.last, gate.first) >= expanded[i][2]
                          THEN [result |-> "Err", gates |-> body]
                          ELSE in_body(body, i, k + 1)
                     ELSE in_body([body EXCEPT ![k] =
                                      replace_in_gate(gate, expanded[i][1], expanded[i][2],
                                                      CountBefore(expanded, i))],
                                  i, k + 1)
        RECURSIVE from(_, _)
        from(body, i) ==
            IF i > Len(expanded) THEN [result |-> "Ok", gates |-> body]
            ELSE IF expanded[i] \in do_no_modify_wires
            THEN from(Append(body, WithType(expanded[i][1],
                                            Copy(CountBefore(expanded, i),
                                                 expanded[i][2]))),
                      i + 1)
            ELSE LET one == in_body(body, i, 1)
                 IN  IF one.result = "Err" THEN one ELSE from(one.gates, i + 1)
    IN  from(gates, 1)

ErrWrongOutputs == "cannot be created (wrong number of output wires)"

\* FunctionBuilder::finish
FunctionBuilder_finish(self, out_ids) ==
    LET replaced == replace_output_wires_with_known_functions(
                        self.gates,
                        add_types_to_wire_ranges(out_ids, self.output_count),
                        self.known_functions)
        left == [self EXCEPT !.gates = replaced.gates]
    IN  IF ~check_wire_ranges_with_counts(out_ids, self.output_count)
        THEN [self |-> self, result |-> Err(ErrWrongOutputs)]
        ELSE IF replaced.result = "Err"
        THEN [self |-> left, result |-> Err("It is forbidden to free an output wire !")]
        ELSE [self |-> left,
              result |-> Ok([function |->
                                [name |-> self.name, output_count |-> self.output_count,
                                 input_count |-> self.input_count,
                                 body |-> [plugin |-> FALSE, gates |-> replaced.gates]],
                             public_count |-> self.public_count,
                             private_count |-> self.private_count,
                             used_conversions |-> self.used_conversions])]

\* FunctionBuilder::input_wires()
InputWires ==
    /\ ~builder.panicked /\ builder.fb # None
    /\ LET r == input_wires(builder.fb[1], builder.overflow_checks)
       IN  builder' = Called(builder.gb, builder.fb,
                          [op |-> "input_wires",
                           result |-> IF r.panic THEN Err("panic") ELSE Ok(r.result),
                           panic |-> r.panic, before |-> builder.fb[1],
                           after |-> builder.fb[1]], r.panic)
    /\ UNCHANGED <<v, pc, pending, msgs, result, last, prev, hist, red, renum>>

\* FunctionBuilder::create_gate(gate)
FunctionBuilderCreateGate(gate) ==
    /\ ~builder.panicked /\ builder.fb # None
    /\ LET r == FunctionBuilder_create_gate(builder.fb[1], gate, builder.overflow_checks)
       IN  builder' = Called(builder.gb, Some(r.self),
                          [op |-> "FunctionBuilder::create_gate", gate |-> gate,
                           result |-> IF r.panic THEN Err("panic") ELSE Ok(r.out_id),
                           panic |-> r.panic,
                           before |-> builder.fb[1], after |-> r.self], r.panic)
    /\ UNCHANGED <<v, pc, pending, msgs, result, last, prev, hist, red, renum>>

\* FunctionBuilder::finish(out_ids), after which the FunctionBuilder is
\* dropped and the GateBuilder can be called again
Finish(out_ids) ==
    /\ ~builder.panicked /\ builder.fb # None
    /\ LET r == FunctionBuilder_finish(builder.fb[1], out_ids)
       IN  builder' = Called(builder.gb, None,
                          [op |-> "finish", out_ids |-> out_ids,
                           result |-> r.result, panic |-> FALSE,
                           before |-> builder.fb[1], after |-> r.self], FALSE)
    /\ UNCHANGED <<v, pc, pending, msgs, result, last, prev, hist, red, renum>>

----------------------------------------------------------------------------
(* FunctionSpec: up to FMaxCalls calls: functions are pushed on a           *)
(* GateBuilder over two types, a FunctionBuilder is made for lists of       *)
(* counts that name a type once, twice or not at all, its input wires are   *)
(* asked for, gates and Call and Convert gates are created in it, with      *)
(* matching and mismatching wires; it is finished and the function it       *)
(* returns is pushed.                                                       *)

FFunctions ==
    {FunctionWithInfos(
         Function_new("f", <<Count_new(0, 1)>>, <<Count_new(0, 1)>>,
                      BodyOfGates(<<WithType(0, Instance(0))>>)),
         (0 :> 2), <<>>, {}),
     FunctionWithInfos(
         Function_new("g", <<Count_new(1, 1)>>, <<>>,
                      BodyOfGates(<<WithType(0, Instance(0)), WithType(1, Witness(0))>>)),
         (0 :> 1), (1 :> 1), {ConversionA})}

FFunctionBuilders ==
    {<<"h", <<Count_new(0, 2)>>, <<Count_new(0, 4)>>>>,
     <<"h", <<Count_new(0, 1)>>, <<Count_new(0, 1), Count_new(1, 2)>>>>,
     <<"h", <<>>, <<Count_new(0, 1), Count_new(0, 2)>>>>,
     <<"h", <<Count_new(0, 1), Count_new(0, 2)>>, <<Count_new(0, 1)>>>>}

FGates ==
    {BuildPublicInput(0, None), BuildPrivateInput(1, None),
     BuildConstant(0, <<1>>), BuildAssertZero(0, 0)}

FBodyCalls ==
    {BuildCall("f", <<WireRange(0, 0)>>), BuildCall("f", <<>>), BuildCall("g", <<>>),
     BuildCall("u", <<>>), ConvertA}

FOutIds == {<<>>, <<WireRange(1, 1)>>, <<WireRange(6, 7)>>}

FunctionInit == BuilderOf(2, {TRUE})

FunctionNext ==
    /\ Len(builder.calls) < FMaxCalls
    /\ \/ \E f \in FFunctions : PushFunction(f)
       \/ \E n \in DOMAIN builder.calls :
              /\ builder.calls[n].op = "finish" /\ builder.calls[n].result.ok
              /\ PushFunction(builder.calls[n].result.value)
       \/ \E b \in FFunctionBuilders : NewFunctionBuilder(b[1], b[2], b[3])
       \/ InputWires
       \/ \E gate \in FGates : FunctionBuilderCreateGate(gate)
       \/ \E gate \in FBodyCalls : FunctionBuilderCreateComplexGate(gate)
       \/ \E out_ids \in FOutIds : Finish(out_ids)

FunctionSpec == FunctionInit /\ [][FunctionNext]_vars

----------------------------------------------------------------------------
(* The gates of a GateBuilder and the messages it delivers to the sink.     *)
(* The sink is the list of the messages pushed to it, in push order.        *)

\* relation.types.len(): MessageBuilder::new gives public_inputs.inputs and
\* private_inputs.inputs one entry per type
types_len(self) == Len(self.public_inputs)

\* GateBuilder::create_gate
GateBuilder_create_gate(self, gate, overflow_checks) ==
    LET type_id == gate.type_id
        a == IF has_output(gate) THEN alloc(type_id, self.next_available_id, overflow_checks)
             ELSE [panic |-> FALSE, out_id |-> NO_OUTPUT,
                   next_available_id |-> self.next_available_id]
        pushed ==
            IF gate.build = "PublicInput" /\ gate.value # None
            THEN push_input_value(self.msg_build, "public_inputs", type_id, gate.value[1])
            ELSE IF gate.build = "PrivateInput" /\ gate.value # None
            THEN push_input_value(self.msg_build, "private_inputs", type_id, gate.value[1])
            ELSE [ok |-> TRUE, self |-> self.msg_build]
    IN  IF type_id >= types_len(self.msg_build)
        THEN [self |-> self, result |-> Err(ErrTypeNotDefined), panic |-> FALSE]
        ELSE IF a.panic
        THEN [self |-> [self EXCEPT !.next_available_id = a.next_available_id],
              result |-> Err("panic"), panic |-> TRUE]
        ELSE IF ~pushed.ok
        THEN [self |-> [self EXCEPT !.next_available_id = a.next_available_id,
                                    !.msg_build = pushed.self],
              result |-> Err(ErrTypeNotDefined), panic |-> FALSE]
        ELSE [self |-> [self EXCEPT
                           !.next_available_id = a.next_available_id,
                           !.msg_build = MessageBuilder_push_gate(pushed.self,
                                             BuildGate_with_output(gate, a.out_id))],
              result |-> Ok(a.out_id), panic |-> FALSE]

\* flush_public_inputs (which = "public_inputs"), flush_private_inputs
flush_inputs(self, which) ==
    [self EXCEPT !.sink = Append(@, [message |-> which, inputs |-> self[which]]),
                 ![which] = [t \in DOMAIN @ |-> <<>>]]

\* MessageBuilder::finish: the sink it returns is in the struct it leaves
MessageBuilder_finish(self) ==
    LET pub == IF self.public_inputs # <<>> THEN flush_inputs(self, "public_inputs")
               ELSE self
        pri == IF pub.private_inputs # <<>> THEN flush_inputs(pub, "private_inputs")
               ELSE pub
    IN  IF pri.relation.gates # <<>> \/ pri.relation.functions # <<>>
        THEN flush_relation(pri)
        ELSE pri

\* GateBuilder::finish
GateBuilder_finish(self) == [self EXCEPT !.msg_build = MessageBuilder_finish(@)]

\* GateBuilder::create_gate(gate)
CreateGate(gate) ==
    /\ ~builder.panicked /\ builder.fb = None
    /\ LET r == GateBuilder_create_gate(builder.gb, gate, builder.overflow_checks)
       IN  builder' = Called(r.self, None,
                          [op |-> "GateBuilder::create_gate", gate |-> gate,
                           result |-> r.result, panic |-> r.panic,
                           before |-> builder.gb, after |-> r.self], r.panic)
    /\ UNCHANGED <<v, pc, pending, msgs, result, last, prev, hist, red, renum>>

\* GateBuilder::finish(), which consumes the builder
GateBuilderFinish ==
    /\ ~builder.panicked /\ builder.fb = None
    /\ LET after == GateBuilder_finish(builder.gb)
       IN  builder' = Called(after, None,
                          [op |-> "GateBuilder::finish", result |-> Ok(<<>>),
                           panic |-> FALSE, before |-> builder.gb, after |-> after],
                          FALSE)
    /\ UNCHANGED <<v, pc, pending, msgs, result, last, prev, hist, red, renum>>

\* finish has been called: the builder is gone
Consumed_by_finish ==
    \E k \in DOMAIN builder.calls : builder.calls[k].op = "GateBuilder::finish"

(* DeliverySpec: up to DMaxCalls calls on a GateBuilder over two types      *)
(* whose MessageBuilder holds at most max_len = 1..DMaxLen: gates of        *)
(* defined and undefined types, with and without a value, functions with    *)
(* bodies of zero, one and two gates, calls and Convert gates given the     *)
(* values they want and values they do not want, then finish.               *)

DFunctions ==
    {FunctionWithInfos(
         Function_new("f", <<Count_new(0, 1)>>, <<>>,
                      BodyOfGates(<<WithType(0, Instance(0))>>)),
         (0 :> 1), <<>>, {}),
     FunctionWithInfos(
         Function_new("g", <<>>, <<>>, BodyOfGates(<<>>)), <<>>, <<>>, {}),
     FunctionWithInfos(
         Function_new("w", <<>>, <<>>,
                      BodyOfGates(<<WithType(0, Instance(0)), WithType(2, Instance(0))>>)),
         (0 :> 1) @@ (2 :> 1), <<>>, {})}

DGates == {BuildConstant(0, <<1>>), BuildAssertZero(0, 0), BuildConstant(2, <<1>>)}

\* Input gates, one carrying its value
DInputGates == {BuildPublicInput(0, Some(<<1>>)), BuildPrivateInput(1, None)}

DCalls ==
    {<<BuildCall("f", <<>>), << <<EXAMPLE_MODULUS>> >>, <<>>>>,
     <<BuildCall("w", <<>>), << <<EXAMPLE_MODULUS>>, <<>>, <<EXAMPLE_MODULUS>> >>, <<>>>>,
     <<ConvertA, <<>>, <<>>>>,
     <<ConvertA, << <<EXAMPLE_MODULUS>> >>, <<>>>>}

DeliveryInit ==
    /\ NoConsumer
    /\ renum = NoRenumbering
    /\ builder \in {[gb |-> GateBuilder_new(2, max_len), fb |-> None,
                      overflow_checks |-> TRUE, panicked |-> FALSE, calls |-> <<>>] :
                        max_len \in 1..DMaxLen}

DeliveryNext ==
    /\ Len(builder.calls) < DMaxCalls
    /\ ~Consumed_by_finish
    /\ \/ \E gate \in DGates : CreateGate(gate)
       \/ \E gate \in DInputGates : CreateGate(gate)
       \/ \E c \in DCalls : CreateComplexGate(c[1], c[2], c[3])
       \/ \E f \in DFunctions : PushFunction(f)
       \/ GateBuilderFinish

DeliverySpec == DeliveryInit /\ [][DeliveryNext]_vars

----------------------------------------------------------------------------
(* Vocabulary of the properties *)

IsPrefix(s, t) == Len(s) <= Len(t) /\ SubSeq(t, 1, Len(s)) = s

\* The violations the last operation appended
Appended == SubSeq(v.violations, Len(prev.violations) + 1, Len(v.violations))

Count(seq, m) == Cardinality({k \in 1..Len(seq) : seq[k] = m})

\* The diagnostics whose text carries the wire id w
NamingWire(w) ==
    {MsgUsedNotAssigned(w), MsgSSA(w), MsgFreedNotDefined(w),
     MsgNoInstanceValue(w), MsgNoWitnessValue(w)}

CountNaming(seq, w) == Cardinality({k \in 1..Len(seq) : seq[k] \in NamingWire(w)})

\* The last operation was ingest_gate on a gate whose arm returned
GateIngested == last.op = "ingest_gate" /\ pc = "running"

\* The subsequence of seq (ascending wire ids) made of the wires in S,
\* each mapped to its 'used but not assigned' diagnostic
RECURSIVE UsedNotAssignedFor(_, _, _)
UsedNotAssignedFor(from, to, S) ==
    IF from > to THEN <<>>
    ELSE (IF from \in S THEN <<MsgUsedNotAssigned(from)>> ELSE <<>>)
         \o UsedNotAssignedFor(from + 1, to, S)

----------------------------------------------------------------------------
(* C1.  A prover's validator that has ingested only inputs meeting the      *)
(* IR's rules returns no violation from get_violations.                     *)

Finished == pc = "done" /\ prev.as_prover /\ hist.wellformed

CountsAgree ==
    /\ hist.instance_gates = hist.instance_values
    /\ hist.witness_gates = hist.witness_values

\* C1 as claimed: messages in any order, as many Instance (Witness) gates
\* as instance (witness) values.
C1_WellFormedAnyOrder == (Finished /\ CountsAgree) => result = <<>>

\* C1 amended: in addition every Instance (Witness) gate was ingested when a
\* supplied instance (witness) value was still unconsumed.
C1_WellFormedNoViolations ==
    (Finished /\ CountsAgree /\ hist.available) => result = <<>>

\* An instance value, a witness value, an Instance gate, a Witness gate and
\* one more gate were ingested and get_violations returned the empty list.
C1_Witness ==
    /\ Finished /\ CountsAgree /\ hist.available
    /\ hist.instance_gates = 1
    /\ hist.witness_gates = 1
    /\ hist.gates = 3
    /\ result = <<>>

----------------------------------------------------------------------------
(* C2.  Re-defining a live wire records exactly one SSA violation whatever  *)
(* the gate kind: after ingesting a gate with an output wire that was live  *)
(* when the gate was ingested, exactly one SSA diagnostic for that wire has *)
(* been appended.  (Fails for Instance and Witness gates.)                  *)
C2_RedefinitionAlwaysOneSSA ==
    (GateIngested /\ HasOutput(last.gate) /\ last.gate.out \in prev.live_wires)
        => Count(Appended, MsgSSA(last.gate.out)) = 1

----------------------------------------------------------------------------
(* C3.  Reading a wire that is not live, by a gate with input wires         *)
(* (AssertZero, Copy, Add, Mul, AddConstant, MulConstant, And, Xor, Not).   *)

ReadsNotLive(w) ==
    GateIngested /\ w \in GateInputs(last.gate) /\ w \notin prev.live_wires

\* C3 as claimed: as prover exactly one violation naming the wire is
\* appended, as verifier none, and the wire is live afterwards.
C3_OneViolationNamingWire ==
    \A w \in GateInputs(IF GateIngested THEN last.gate ELSE Call) :
        ReadsNotLive(w) =>
            /\ CountNaming(Appended, w) = (IF v.as_prover THEN 1 ELSE 0)
            /\ w \in v.live_wires

\* C3 amended: as prover exactly one 'used but not assigned' violation for
\* the wire is appended (also when both inputs are that wire), as verifier
\* none; the wire is live afterwards; the only other violation naming the
\* wire is the SSA violation of a gate whose output is that same wire; and a
\* read of a wire that is live appends no 'used but not assigned' violation.
C3_OneUsedNotAssigned ==
    GateIngested =>
        \A w \in GateInputs(last.gate) :
            /\ ReadsNotLive(w) =>
                /\ Count(Appended, MsgUsedNotAssigned(w)) = (IF v.as_prover THEN 1 ELSE 0)
                /\ w \in v.live_wires
                /\ CountNaming(Appended, w) =
                       (IF v.as_prover THEN 1 ELSE 0)
                       + (IF HasOutput(last.gate) /\ last.gate.out = w THEN 1 ELSE 0)
            /\ w \in prev.live_wires => Count(Appended, MsgUsedNotAssigned(w)) = 0

\* A prover's gate read the same non-live wire on both inputs.
C3_Witness ==
    /\ GateIngested
    /\ v.as_prover
    /\ last.gate.kind \in {"Add", "Mul", "And", "Xor"}
    /\ last.gate.left = last.gate.right
    /\ last.gate.out # last.gate.left
    /\ last.gate.left \notin prev.live_wires
    /\ Count(Appended, MsgUsedNotAssigned(last.gate.left)) = 1

----------------------------------------------------------------------------
(* C4.  Free(first, last), in either mode, appends exactly one violation    *)
(* for each wire of first..=last that is not live, and none for the wires   *)
(* that are live.  (Fails as verifier.)                                     *)
C4_FreeOneViolationPerAbsentWire ==
    (GateIngested /\ last.gate.kind = "Free") =>
        \A w \in FreeRange(last.gate) :
            CountNaming(Appended, w) = (IF w \in prev.live_wires THEN 0 ELSE 1)

----------------------------------------------------------------------------
(* C5.  After a Free gate no wire of its range is live, and for a wire      *)
(* freed and not touched since: a gate writing it records no SSA violation, *)
(* and as prover a gate reading it records a 'used but not assigned'        *)
(* violation.                                                               *)

FreeLeavesRangeDead ==
    (GateIngested /\ last.gate.kind = "Free")
        => FreeRange(last.gate) \cap v.live_wires = {}

WritesFreed == GateIngested /\ HasOutput(last.gate) /\ last.gate.out \in last.freed

ReadsFreed(w) == GateIngested /\ w \in GateInputs(last.gate) /\ w \in last.freed

ReadOfFreedIsViolation ==
    GateIngested =>
        \A w \in GateInputs(last.gate) :
            (ReadsFreed(w) /\ v.as_prover) => Count(Appended, MsgUsedNotAssigned(w)) = 1

\* C5 as claimed: every later write of a freed wire records no SSA violation.
C5_WriteAfterFreeNoSSA ==
    /\ FreeLeavesRangeDead
    /\ WritesFreed => Count(Appended, MsgSSA(last.gate.out)) = 0
    /\ ReadOfFreedIsViolation

\* C5 amended: a later write of a freed wire by a gate that does not also
\* read that wire records no SSA violation.
C5_FreeThenRedeclare ==
    /\ FreeLeavesRangeDead
    /\ (WritesFreed /\ last.gate.out \notin GateInputs(last.gate))
           => Count(Appended, MsgSSA(last.gate.out)) = 0
    /\ ReadOfFreedIsViolation

\* A prover's wire was defined, freed and written again without any violation.
C5_Witness ==
    /\ WritesFreed
    /\ v.as_prover
    /\ last.gate.out \in v.live_wires
    /\ v.violations = <<>>

----------------------------------------------------------------------------
(* Vocabulary of the value diagnostics (C6, C8, C14).                       *)

IsValueDiagnostic(m) ==
    m.fmt \in {"The {} is empty.",
               "The {} cannot be represented in the field specified in Header ({} >= {})."}

\* What the claim expects for one value, named as the code names it
ValueDiagnostics(value, name, nameargs, characteristic) ==
    IF Len(value) = 0 THEN <<MsgEmpty(name, nameargs)>>
    ELSE IF from_bytes_le(value) >= characteristic
    THEN <<MsgNotInField(name, nameargs, from_bytes_le(value), characteristic)>>
    ELSE <<>>

RECURSIVE ValuesDiagnostics(_, _, _)
ValuesDiagnostics(values, name, characteristic) ==
    IF Len(values) = 0 THEN <<>>
    ELSE ValueDiagnostics(Head(values), name, <<Head(values)>>, characteristic)
         \o ValuesDiagnostics(Tail(values), name, characteristic)

\* The characteristic of the first header ingested
Characteristic == from_bytes_le(hist.first_header.field_characteristic)

----------------------------------------------------------------------------
(* Vocabulary of the messages and of the header diagnostics (C6, C9, C10).  *)

MessageIngested == last.op \in {"ingest_instance", "ingest_witness", "ingest_relation"}

IsHeaderDiagnostic(m) ==
    m \in {MsgCharacteristicInconsistent, MsgDegreeInconsistent, MsgProfileInconsistent,
           MsgVersionInconsistent, MsgCharacteristicTooSmall, MsgDegreeNotOne,
           MsgBooleanCharacteristic, MsgProfileName, MsgVersionFormat}

When(cond, m) == IF cond THEN <<m>> ELSE <<>>

----------------------------------------------------------------------------
(* C6.  The violations list is append-only and ordered by traversal.  An   *)
(* operation keeps the earlier entries as a prefix.  The entries of one     *)
(* message come in the order of the checks: for an instance or a witness    *)
(* message the header's entries, in the order of the header checks          *)
(* (characteristic, degree, profile, version), then the values' entries in  *)
(* the order of the values (as verifier the 'unexpected Witness' entry of   *)
(* a witness message comes first, its check being the first traversed);     *)
(* for a relation message the header's entries and then, gate after gate,   *)
(* the gates' entries, none of which is a header entry.  A Free gate's      *)
(* entries come in ascending wire id, as prover one 'used but not           *)
(* assigned' entry per wire that was not live and no 'being freed' entry;   *)
(* in particular Free(1, Some(2)) then Free(4, None) on wires that are not  *)
(* live appends the entries for 1, 2, 4 in that order.                      *)

\* The rank of a header check in ingest_header: characteristic, degree,
\* profile, version, for the first header and for the later ones
HeaderCheckRank(m) ==
    CASE m \in {MsgCharacteristicTooSmall, MsgCharacteristicInconsistent} -> 1
      [] m \in {MsgDegreeNotOne, MsgDegreeInconsistent} -> 2
      [] m \in {MsgBooleanCharacteristic, MsgProfileName, MsgProfileInconsistent} -> 3
      [] m \in {MsgVersionFormat, MsgVersionInconsistent} -> 4

InCheckOrder(H) ==
    \A i, j \in 1..Len(H) : i < j => HeaderCheckRank(H[i]) < HeaderCheckRank(H[j])

\* The entries of a message: header checks, then values in sequence order
MessageInOrder ==
    LET H == SelectSeq(Appended, IsHeaderDiagnostic)
        V == SelectSeq(Appended, IsValueDiagnostic)
        name == IF last.op = "ingest_instance" THEN "instance value {:?}"
                ELSE "witness value {:?}"
    IN  /\ Appended = When(last.op = "ingest_witness" /\ ~v.as_prover, MsgUnexpectedWitness)
                       \o H \o V
        /\ InCheckOrder(H)
        /\ V = IF last.op = "ingest_relation" THEN <<>>
               ELSE ValuesDiagnostics(last.values, name, Characteristic)

C6_AppendOnlyInOrder ==
    /\ IsPrefix(prev.violations, v.violations)
    /\ MessageIngested => MessageInOrder
    /\ GateIngested => SelectSeq(Appended, IsHeaderDiagnostic) = <<>>
    /\ (GateIngested /\ last.gate.kind = "Free" /\ v.as_prover) =>
           Appended = UsedNotAssignedFor(last.gate.first,
                                         unwrap_or(last.gate.last, last.gate.first),
                                         FreeRange(last.gate) \ prev.live_wires)
    /\ (GateIngested /\ last.gate.kind \in {"Add", "Mul", "And", "Xor"} /\ v.as_prover
        /\ {last.gate.left, last.gate.right} \cap prev.live_wires = {}
        /\ last.gate.left # last.gate.right) =>
           \E i, j \in 1..Len(Appended) :
               /\ i < j
               /\ Appended[i] = MsgUsedNotAssigned(last.gate.left)
               /\ Appended[j] = MsgUsedNotAssigned(last.gate.right)

\* A prover ingested an instance message whose header has two defects and
\* whose two values are out of the field, then a relation message whose
\* header differs twice from the first and whose gates are the test's two
\* Free gates: the entries of the header and of the values, those of the
\* second header, and the entries for the wires 1, 2, 4.
C6_Witness ==
    /\ GateIngested
    /\ v.as_prover
    /\ last.gate = Free(4, None)
    /\ v.violations =
          <<MsgDegreeNotOne, MsgVersionFormat,
            MsgNotInField("instance value {:?}", <<EXAMPLE_MODULUS>>, 101, 101),
            MsgEmpty("instance value {:?}", << <<>> >>),
            MsgDegreeInconsistent, MsgVersionInconsistent,
            MsgUsedNotAssigned(1), MsgUsedNotAssigned(2), MsgUsedNotAssigned(4)>>

----------------------------------------------------------------------------
(* C7.  The validator never aborts: ingesting any gate returns normally.    *)
(* (Fails: the Function and Call arms are unimplemented!().)                *)
C7_NeverAborts == pc # "panicked"

----------------------------------------------------------------------------
(* C8.  Every instance value, witness value and gate constant is checked    *)
(* for field membership against the characteristic of the first header      *)
(* ingested: a value >= the characteristic (in particular equal to it)      *)
(* appends exactly one 'cannot be represented in the field' violation, an   *)
(* empty value an 'is empty' violation, and a non-empty value below the     *)
(* characteristic none; in the order of the values.                         *)

C8_ValuesCheckedInField ==
    /\ last.op = "ingest_instance" =>
           SelectSeq(Appended, IsValueDiagnostic)
               = ValuesDiagnostics(last.values, "instance value {:?}", Characteristic)
    /\ last.op = "ingest_witness" =>
           SelectSeq(Appended, IsValueDiagnostic)
               = ValuesDiagnostics(last.values, "witness value {:?}", Characteristic)
    /\ (GateIngested /\ last.gate.kind = "Constant") =>
           SelectSeq(Appended, IsValueDiagnostic)
               = ValueDiagnostics(last.gate.value, "Gate::Constant constant", <<>>,
                                  Characteristic)
    /\ (GateIngested /\ last.gate.kind = "AddConstant") =>
           SelectSeq(Appended, IsValueDiagnostic)
               = ValueDiagnostics(last.gate.constant, "Gate::AddConstant_{}",
                                  << <<last.gate.out>> >>, Characteristic)
    /\ (GateIngested /\ last.gate.kind = "MulConstant") =>
           SelectSeq(Appended, IsValueDiagnostic)
               = ValueDiagnostics(last.gate.constant, "Gate::MulConstant_{}",
                                  << <<last.gate.out>> >>, Characteristic)

\* The test's case: an instance value equal to the characteristic 101.
C8_Witness ==
    /\ last.op = "ingest_instance"
    /\ last.values = <<EXAMPLE_MODULUS>>
    /\ Appended = <<MsgNotInField("instance value {:?}", <<EXAMPLE_MODULUS>>, 101, 101)>>

----------------------------------------------------------------------------
(* C9.  Once a first header has been ingested, the header of every later    *)
(* message appends exactly one violation for each of characteristic,        *)
(* degree, profile and version that differs from the first header's, none   *)
(* when all four agree, and the recorded header is not changed.             *)

Recorded(self) ==
    <<self.got_header, self.field_characteristic, self.field_degree, self.field_bytelen,
      self.header_profile, self.header_version, self.is_arithmetic_circuit>>

C9_LaterHeadersCompared ==
    (MessageIngested /\ prev.got_header) =>
        /\ SelectSeq(Appended, IsHeaderDiagnostic) =
              When(from_bytes_le(last.header.field_characteristic) # Characteristic,
                   MsgCharacteristicInconsistent)
              \o When(last.header.field_degree # hist.first_header.field_degree,
                      MsgDegreeInconsistent)
              \o When(last.header.profile # hist.first_header.profile,
                      MsgProfileInconsistent)
              \o When(last.header.version # hist.first_header.version,
                      MsgVersionInconsistent)
        /\ Recorded(v) = Recorded(prev)
        /\ v.field_characteristic = Characteristic
        /\ v.header_profile = hist.first_header.profile
        /\ v.header_version = hist.first_header.version
        /\ v.field_degree = hist.first_header.field_degree

\* A later header differing in all four fields appended the four violations.
C9_Witness ==
    /\ MessageIngested /\ prev.got_header
    /\ SelectSeq(Appended, IsHeaderDiagnostic) =
           <<MsgCharacteristicInconsistent, MsgDegreeInconsistent,
             MsgProfileInconsistent, MsgVersionInconsistent>>

----------------------------------------------------------------------------
(* C10.  The first header ingested appends a violation when the             *)
(* characteristic is not > 1, when the degree is not 1, when the profile    *)
(* is neither profile name, and when the profile is boolean but the         *)
(* characteristic is not 2; a header with none of these defects and a       *)
(* version of the form digits.digits.digits appends none.  As claimed the   *)
(* profile is compared as it is written; the code compares it after         *)
(* str::trim, so that a profile name surrounded by whitespace is that       *)
(* profile: amended, 'the profile' is the profile with its leading and      *)
(* trailing whitespace removed.                                             *)

FirstHeaderIngested == MessageIngested /\ ~prev.got_header

\* What the claim expects of the first header, name being the profile as
\* the claim reads it
FirstHeaderValidated(name) ==
    FirstHeaderIngested =>
        LET h == last.header
            c == from_bytes_le(h.field_characteristic)
            D == SelectSeq(Appended, IsHeaderDiagnostic)
            defects == When(~(c > 1), MsgCharacteristicTooSmall)
                       \o When(h.field_degree # 1, MsgDegreeNotOne)
                       \o When(name = circ_boolean_simple /\ c # 2, MsgBooleanCharacteristic)
                       \o When(name \notin {circ_arithmetic_simple, circ_boolean_simple},
                               MsgProfileName)
        IN  /\ SelectSeq(D, LAMBDA m : m # MsgVersionFormat) = defects
            /\ StrictVersion(h.version) => Count(D, MsgVersionFormat) = 0
            /\ Count(D, MsgVersionFormat) <= 1

\* C10 as claimed: the profile as written in the header
C10_ProfileNameLiteral == FirstHeaderValidated(last.header.profile)

\* C10 amended: the profile with surrounding whitespace removed
C10_FirstHeaderValidated == FirstHeaderValidated(Trim(last.header.profile))

\* A first header with a wrong degree, a boolean profile over characteristic 101
\* and a malformed version was ingested.
C10_Witness ==
    /\ FirstHeaderIngested
    /\ last.header = Header(EXAMPLE_MODULUS, 2, circ_boolean_simple, Version_1_0)
    /\ SelectSeq(Appended, IsHeaderDiagnostic)
           = <<MsgDegreeNotOne, MsgBooleanCharacteristic, MsgVersionFormat>>

----------------------------------------------------------------------------
(* C11.  The version of the first header is accepted without violation      *)
(* exactly when it is three non-empty groups of decimal digits separated    *)
(* by literal dots; every other string appends the version-format           *)
(* violation.                                                               *)

C11_VersionAcceptedIffStrict ==
    FirstHeaderIngested =>
        (Count(Appended, MsgVersionFormat) = 0 <=> StrictVersion(last.header.version))

----------------------------------------------------------------------------
(* C12.  An Instance gate, and a prover's Witness gate, takes one value     *)
(* off its queue when the queue is not empty and otherwise appends exactly  *)
(* one 'No value available' violation naming its output wire and leaves     *)
(* the queue at 0; a verifier's Witness gate declares its output and does   *)
(* nothing else; each queue length is at all times the number of values     *)
(* supplied minus the number consumed, and never negative.                  *)

QueuesUnchanged(fields) == \A f \in fields : v[f] = prev[f]

C12_InputConsumption ==
    /\ v.instance_queue_len >= 0
    /\ v.witness_queue_len >= 0
    /\ v.instance_queue_len = hist.instance_values - hist.instance_consumed
    /\ v.witness_queue_len = hist.witness_values - hist.witness_consumed
    /\ (GateIngested /\ last.gate.kind = "Instance") =>
          /\ last.gate.out \in v.live_wires
          /\ QueuesUnchanged({"witness_queue_len"})
          /\ IF prev.instance_queue_len > 0
             THEN v.instance_queue_len = prev.instance_queue_len - 1 /\ Appended = <<>>
             ELSE v.instance_queue_len = 0
                  /\ Appended = <<MsgNoInstanceValue(last.gate.out)>>
    /\ (GateIngested /\ last.gate.kind = "Witness" /\ v.as_prover) =>
          /\ last.gate.out \in v.live_wires
          /\ QueuesUnchanged({"instance_queue_len"})
          /\ IF prev.witness_queue_len > 0
             THEN v.witness_queue_len = prev.witness_queue_len - 1 /\ Appended = <<>>
             ELSE v.witness_queue_len = 0
                  /\ Appended = <<MsgNoWitnessValue(last.gate.out)>>
    /\ (GateIngested /\ last.gate.kind = "Witness" /\ ~v.as_prover) =>
          /\ last.gate.out \in v.live_wires
          /\ QueuesUnchanged({"instance_queue_len", "witness_queue_len"})
          /\ Appended = <<>>

\* One Instance gate consumed the only value and the next one found none.
C12_Witness ==
    /\ GateIngested /\ last.gate.kind = "Instance"
    /\ hist.instance_values = 1 /\ hist.instance_consumed = 1
    /\ Appended = <<MsgNoInstanceValue(last.gate.out)>>
    /\ v.instance_queue_len = 0

----------------------------------------------------------------------------
(* C13.  get_violations returns the accumulated list followed by one        *)
(* violation when instance values remain unconsumed and one when witness    *)
(* values remain unconsumed, and the accumulated list itself when none      *)
(* remain; wires still live add nothing.                                    *)

InstanceSurplus == hist.instance_values - hist.instance_consumed
WitnessSurplus == hist.witness_values - hist.witness_consumed

\* C13 as claimed: in either mode.
C13_SurplusReported ==
    pc = "done" =>
        result = prev.violations
                 \o When(InstanceSurplus > 0, MsgTooManyInstance(InstanceSurplus))
                 \o When(WitnessSurplus > 0, MsgTooManyWitness(WitnessSurplus))

\* C13 amended: the witness surplus is reported in prover mode only.
C13_SurplusReportedAsProver ==
    pc = "done" =>
        result = prev.violations
                 \o When(InstanceSurplus > 0, MsgTooManyInstance(InstanceSurplus))
                 \o When(prev.as_prover /\ WitnessSurplus > 0,
                         MsgTooManyWitness(WitnessSurplus))

\* A prover finished with a surplus on both queues, an earlier violation on
\* the list and a wire still live.
C13_Witness ==
    /\ pc = "done" /\ prev.as_prover
    /\ prev.live_wires # {}
    /\ Len(prev.violations) > 0
    /\ result = prev.violations \o <<MsgTooManyInstance(1), MsgTooManyWitness(1)>>

----------------------------------------------------------------------------
(* C14.  A witness message appends exactly one 'unexpected Witness message' *)
(* violation to a verifier and none to a prover; in both modes its header   *)
(* is then checked, its values are checked against the field and their      *)
(* number is added to the witness queue length.                             *)

\* What a header appends under InputSpec, whose headers are all valid: the
\* differences with the first header ingested.
HeaderDifferences(header) ==
    IF hist.first_header = header THEN <<>>
    ELSE When(from_bytes_le(header.field_characteristic) # Characteristic,
              MsgCharacteristicInconsistent)
         \o When(header.field_degree # hist.first_header.field_degree,
                 MsgDegreeInconsistent)
         \o When(header.profile # hist.first_header.profile, MsgProfileInconsistent)
         \o When(header.version # hist.first_header.version, MsgVersionInconsistent)

C14_WitnessMessage ==
    last.op = "ingest_witness" =>
        /\ Appended = When(~v.as_prover, MsgUnexpectedWitness)
                      \o HeaderDifferences(last.header)
                      \o ValuesDiagnostics(last.values, "witness value {:?}", Characteristic)
        /\ v.witness_queue_len = prev.witness_queue_len + Len(last.values)
        /\ v.got_header

\* A verifier got a witness message whose header differs from the first one
\* and whose value is not in the field.
C14_Witness ==
    /\ last.op = "ingest_witness" /\ ~v.as_prover
    /\ Len(last.values) = 1
    /\ Appended = <<MsgUnexpectedWitness, MsgCharacteristicInconsistent,
                    MsgProfileInconsistent,
                    MsgNotInField("witness value {:?}", <<last.values[1]>>, 2, 2)>>
    /\ v.witness_queue_len = prev.witness_queue_len + 1

----------------------------------------------------------------------------
(* C16.  Whenever exp_definable_from returns, every Add, Mul, AddConstant,  *)
(* MulConstant, And, Xor or Not gate of the output, at any depth of the     *)
(* bodies of AnonCall gates, anonymous Switch branches and anonymous For    *)
(* bodies, is of a kind the requested mask contains.                        *)

FeatureOf(kind) ==
    CASE kind = "Add" -> "ADD" [] kind = "Mul" -> "MUL"
      [] kind = "AddConstant" -> "ADDC" [] kind = "MulConstant" -> "MULC"
      [] kind = "And" -> "AND" [] kind = "Xor" -> "XOR" [] kind = "Not" -> "NOT"

MaskedKinds == {"Add", "Mul", "AddConstant", "MulConstant", "And", "Xor", "Not"}

\* The gate lists directly inside a gate
BodiesOf(gate) ==
    CASE gate.kind = "AnonCall" -> {gate.subcircuit}
      [] gate.kind = "Switch" ->
            {gate.branches[k].body :
                k \in {j \in 1..Len(gate.branches) :
                          gate.branches[j].case = "AbstractAnonCall"}}
      [] gate.kind = "For" ->
            IF gate.body.body = "IterExprAnonCall" THEN {gate.body.subcircuit} ELSE {}
      [] OTHER -> {}

\* The gates of a gate list at any depth
RECURSIVE AllGates(_)
AllGates(gates) ==
    UNION {{gates[k]} \cup UNION {AllGates(body) : body \in BodiesOf(gates[k])} :
              k \in 1..Len(gates)}

Returned(run) == run.returned.panic = ""

C16_OutputWithinMask ==
    \A k \in 1..Len(red.runs) :
        Returned(red.runs[k]) =>
            \A g \in AllGates(red.runs[k].returned.relation.gates) :
                g.kind \in MaskedKinds => FeatureOf(g.kind) \in red.runs[k].gate_mask

\* A Not gate two bodies deep was rewritten for a mask without NOT.
C16_Witness ==
    /\ Len(red.runs) >= 1 /\ Returned(red.runs[1])
    /\ "NOT" \notin red.gate_mask
    /\ \E g \in Nested2 : red.relation.gates = <<g>>
    /\ \E g \in AllGates(red.runs[1].returned.relation.gates) :
           g.kind \in {"Xor", "Add"} /\ g.right = red.tmp_wire_start

----------------------------------------------------------------------------
(* C18.  Reducing the result of a successful reduction again with the same  *)
(* mask returns the same gate sequence and the same temporary-wire counter. *)

C18_Idempotent ==
    \A k \in 2..Len(red.runs) :
        Returned(red.runs[k - 1]) =>
            /\ Returned(red.runs[k])
            /\ red.runs[k].returned.relation.gates = red.runs[k - 1].returned.relation.gates
            /\ red.runs[k].returned.free_temporary_wire
                  = red.runs[k - 1].returned.free_temporary_wire

\* The first reduction rewrote gates with a temporary wire and the second
\* returned the same gates.
C18_Witness ==
    /\ Len(red.runs) = 2 /\ Returned(red.runs[2])
    /\ red.runs[1].returned.free_temporary_wire > red.tmp_wire_start
    /\ red.runs[1].returned.relation.gates # red.relation.gates
    /\ red.runs[2].returned.relation.gates = red.runs[1].returned.relation.gates

----------------------------------------------------------------------------
(* C19.  When the mask excludes both And and Mul, reducing a relation that  *)
(* contains an And, Mul or MulConstant gate aborts; when the mask excludes  *)
(* both Xor and Add, reducing a relation that contains a Xor, Add,          *)
(* AddConstant or Not gate aborts; no reduced relation is returned then.    *)

Aborted(run) == ~Returned(run) /\ "relation" \notin DOMAIN run.returned

KindsIn(relation) == {g.kind : g \in AllGates(relation.gates)}

\* C19 as claimed
C19_AbortsWithoutAndMul ==
    \A k \in 1..Len(red.runs) :
        LET run == red.runs[k]
        IN  /\ (run.gate_mask \cap {"AND", "MUL"} = {}
                  /\ KindsIn(run.relation) \cap {"And", "Mul", "MulConstant"} # {})
                   => Aborted(run)
            /\ (run.gate_mask \cap {"XOR", "ADD"} = {}
                  /\ KindsIn(run.relation) \cap {"Xor", "Add", "AddConstant", "Not"} # {})
                   => Aborted(run)

\* The kinds of the relation that the mask lets through as they are do not
\* count: a MulConstant gate under a mask with MULC, an AddConstant gate
\* under a mask with ADDC, a Not gate under a mask with NOT.
Rewritten(run, kinds) == {kind \in KindsIn(run.relation) \cap kinds :
                             FeatureOf(kind) \notin run.gate_mask}

\* C19 amended
C19_AbortsWhenRewritten ==
    \A k \in 1..Len(red.runs) :
        LET run == red.runs[k]
        IN  /\ (run.gate_mask \cap {"AND", "MUL"} = {}
                  /\ Rewritten(run, {"And", "Mul", "MulConstant"}) # {})
                   => Aborted(run)
            /\ (run.gate_mask \cap {"XOR", "ADD"} = {}
                  /\ Rewritten(run, {"Xor", "Add", "AddConstant", "Not"}) # {})
                   => Aborted(run)

\* Over characteristic 2, a Not gate inside a body met a mask with neither
\* NOT, XOR nor ADD, and the reduction aborted at the Xor gate it became.
C19_Witness ==
    /\ Len(red.runs) = 1
    /\ red.gate_mask \cap {"NOT", "XOR", "ADD"} = {}
    /\ KindsIn(red.relation) \cap MaskedKinds = {"Not"}
    /\ Aborted(red.runs[1])
    /\ red.runs[1].returned.panic = PanicXor

----------------------------------------------------------------------------
(* C20.  exp_definable_from aborts on its characteristic check, before any  *)
(* gate is rewritten, exactly when the characteristic is not 2 and the      *)
(* mask of the input relation or the requested mask contains Xor, And or    *)
(* Not.                                                                     *)

UsesBoolean(mask) == mask \cap {"XOR", "AND", "NOT"} # {}

CharacteristicAbort(run) == run.returned.panic \in {PanicInputRelation, PanicTargetMask}

C20_CharacteristicPrecondition ==
    \A k \in 1..Len(red.runs) :
        LET run == red.runs[k]
            is_two == from_bytes_le(run.relation.header.field_characteristic) = 2
        IN  CharacteristicAbort(run)
                <=> (~is_two /\ (UsesBoolean(run.relation.gate_mask)
                                    \/ UsesBoolean(run.gate_mask)))

\* Over characteristic 101 a boolean input mask aborted the reduction to an
\* arithmetic mask, for a relation whose And gate would have aborted it too.
C20_Witness ==
    /\ Len(red.runs) = 1
    /\ from_bytes_le(red.relation.header.field_characteristic) = 101
    /\ UsesBoolean(red.relation.gate_mask) /\ ~UsesBoolean(red.gate_mask)
    /\ red.relation.gates = <<And(2, 0, 1)>> /\ "MUL" \notin red.gate_mask
    /\ red.runs[1].returned.panic = PanicInputRelation

----------------------------------------------------------------------------
(* C17.  Over characteristic 2, reducing a relation of primitive gates to   *)
(* the mask {Xor, And, Not} and the result to the mask {Add, Mul,           *)
(* AddConstant, MulConstant} gives a gate list that, for every assignment   *)
(* of the input values, assigns to every wire of the original relation the  *)
(* value the original gate list assigns, and makes the same AssertZero      *)
(* gates hold.                                                              *)

\* The value of a wire over GF(2) after one gate; env maps the wires
\* assigned so far to their values.
GateValue(gate, env, instance_value, witness_value) ==
    CASE gate.kind = "Constant" -> from_bytes_le(gate.value) % 2
      [] gate.kind = "Copy" -> env[gate.inp]
      [] gate.kind \in {"Add", "Xor"} -> (env[gate.left] + env[gate.right]) % 2
      [] gate.kind \in {"Mul", "And"} -> env[gate.left] * env[gate.right]
      [] gate.kind = "AddConstant" -> (env[gate.inp] + from_bytes_le(gate.constant)) % 2
      [] gate.kind = "MulConstant" -> (env[gate.inp] * from_bytes_le(gate.constant)) % 2
      [] gate.kind = "Not" -> 1 - env[gate.inp]
      [] gate.kind = "Instance" -> instance_value
      [] gate.kind = "Witness" -> witness_value

\* The evaluation of a gate list: the values of the wires, and for each
\* AssertZero gate in order whether it holds.
RECURSIVE Evaluate(_, _, _, _)
Evaluate(gates, ev, instance_value, witness_value) ==
    IF Len(gates) = 0 THEN ev
    ELSE LET gate == Head(gates)
             ev1 == IF gate.kind = "AssertZero"
                    THEN [ev EXCEPT !.asserts = Append(@, ev.env[gate.inp] = 0)]
                    ELSE [ev EXCEPT !.env =
                             (gate.out :> GateValue(gate, ev.env, instance_value,
                                                    witness_value)) @@ @]
         IN  Evaluate(Tail(gates), ev1, instance_value, witness_value)

Evaluation(gates, instance_value, witness_value) ==
    Evaluate(gates, [env |-> <<>>, asserts |-> <<>>], instance_value, witness_value)

C17_RoundTripSemantics ==
    (Len(red.runs) = 2) =>
        /\ Returned(red.runs[2])
        /\ \A instance_value \in {0, 1}, witness_value \in {0, 1} :
              LET original == Evaluation(red.relation.gates, instance_value, witness_value)
                  reduced  == Evaluation(red.runs[2].returned.relation.gates,
                                         instance_value, witness_value)
              IN  /\ \A w \in DOMAIN original.env :
                         w \in DOMAIN reduced.env /\ reduced.env[w] = original.env[w]
                  /\ reduced.asserts = original.asserts

\* A relation with an AddConstant gate, a Not gate and an AssertZero gate
\* went through both reductions, which rewrote them with temporary wires.
C17_Witness ==
    /\ Len(red.runs) = 2 /\ Returned(red.runs[2])
    /\ {"AddConstant", "Not", "AssertZero"} \subseteq KindsIn(red.relation)
    /\ KindsIn(red.runs[2].returned.relation) \cap {"Xor", "And", "Not"} = {}
    /\ red.runs[2].returned.free_temporary_wire >= red.tmp_wire_start + 2

----------------------------------------------------------------------------
(* C21.  The relation exp_definable_from returns has the header of the      *)
(* input relation, the requested mask as gate mask and no function; the     *)
(* relation it was given is afterwards what it was; and the counter it      *)
(* returns is the one it was given advanced past every temporary wire the   *)
(* rewrites took: the wires of the returned gates from the starting counter *)
(* on are exactly those below the returned counter.                         *)

\* The wires a primitive gate names
WiresOf(gate) == {gate[f] : f \in DOMAIN gate \cap {"out", "inp", "left", "right"}}

\* The wires at or above the starting counter in the gates a call returned
TemporariesOf(run) ==
    {w \in UNION {WiresOf(g) : g \in AllGates(run.returned.relation.gates)} :
        w >= run.tmp_wire_start}

C21_ReturnedRelationFrame ==
    \A k \in 1..Len(red.runs) :
        LET run == red.runs[k]
        IN  /\ run.relation = IF k = 1 THEN red.relation
                              ELSE red.runs[k - 1].returned.relation
            /\ Returned(run) =>
                  /\ run.returned.relation.header = run.relation.header
                  /\ run.returned.relation.gate_mask = run.gate_mask
                  /\ run.returned.relation.functions = <<>>
                  /\ TemporariesOf(run)
                        = run.tmp_wire_start .. (run.returned.free_temporary_wire - 1)

\* A relation over characteristic 2 with a function, a boolean mask and a
\* Not gate was reduced to the arithmetic mask: the Not gate took a
\* temporary wire and the relation returned has no function.
C21_Witness ==
    /\ Len(red.runs) = 1 /\ Returned(red.runs[1])
    /\ red.relation.functions # <<>>
    /\ red.relation.gate_mask = BooleanMask /\ red.gate_mask = ArithmeticMask
    /\ "Not" \in KindsIn(red.relation)
    /\ red.runs[1].returned.free_temporary_wire = red.tmp_wire_start + 1
    /\ red.runs[1].returned.relation.functions = <<>>
    /\ red.relation = red.runs[1].relation

----------------------------------------------------------------------------
(* C22.  Over any interleaving of alloc and multiple_alloc on one builder,  *)
(* every allocation returns; per type id the ids handed out start at the    *)
(* initial counter and each allocation starts where the previous one of     *)
(* that type ended, so that single ids and ranges are pairwise disjoint     *)
(* and increasing; a range allocation of n ids returns an inclusive range   *)
(* of exactly n ids, n = 0 included; and an allocation leaves the counters  *)
(* of the other type ids as they were.                                      *)

CounterOf(map, type_id) == IF type_id \in DOMAIN map THEN map[type_id] ELSE 0

\* The number of ids in the inclusive range first_id..=last_id
RangeLen(first_id, last_id) == IF last_id < first_id THEN 0 ELSE last_id - first_id + 1

C22_AllocationFresh ==
    \A k \in 1..Len(builder.calls) :
        LET a == builder.calls[k]
            earlier == {j \in 1..(k - 1) : builder.calls[j].type_id = a.type_id}
        IN  /\ ~a.panic
            /\ RangeLen(a.first_id, a.last_id) = a.n
            /\ a.first_id = CounterOf(a.before, a.type_id)
            /\ earlier = {} => a.first_id = CounterOf(builder.initial, a.type_id)
            /\ \A j \in earlier :
                  LET e == builder.calls[j]
                  IN  /\ e.first_id + e.n <= a.first_id
                      /\ (e.n > 0 /\ a.n > 0) => e.last_id < a.first_id
            /\ \A t \in TypeIds \ {a.type_id} :
                  CounterOf(a.after, t) = CounterOf(a.before, t)

----------------------------------------------------------------------------
(* C23.  After a successful replace_output_wires on a body without For      *)
(* gate, every occurrence of a declared output wire, in a gate or in a      *)
(* wire list of a Call, AnonCall or Convert gate, names the canonical id    *)
(* of that output (its rank among the declared outputs of its type), and    *)
(* every other occurrence (the same id under another type, a wire that is   *)
(* not a declared output) names what it named.                              *)

\* The (type, id) pairs a gate names, in a fixed order
Occurrences(gate) ==
    IF gate.kind \in {"Convert", "AnonCall", "Call"}
    THEN expand_wirelist(gate.output_wires) \o expand_wirelist(gate.input_wires)
    ELSE LET fs == SelectSeq(<<"out", "inp", "left", "right">>,
                             LAMBDA f : f \in DOMAIN gate)
         IN  [j \in DOMAIN fs |-> <<gate.type, gate[fs[j]]>>]

HasFor(gates) == \E k \in DOMAIN gates : gates[k].kind = "For"

\* Where renumbering is to put a wire: a declared output at its canonical
\* id, any other wire where it is
CanonicalOf(expanded, wire) ==
    IF \E i \in DOMAIN expanded : expanded[i] = wire
    THEN <<wire[1], CountBefore(expanded, CHOOSE i \in DOMAIN expanded : expanded[i] = wire)>>
    ELSE wire

C23_OutputsAtCanonicalIds ==
    \A r \in 1..Len(renum.runs) :
        LET run == renum.runs[r]
            expanded == expand_wirelist(run.output_wires)
        IN  (run.returned.result = "Ok" /\ ~HasFor(run.gates)) =>
                /\ Len(run.returned.gates) = Len(run.gates)
                /\ \A k \in DOMAIN run.gates :
                      LET before == Occurrences(run.gates[k])
                      IN  Occurrences(run.returned.gates[k])
                            = [j \in DOMAIN before |-> CanonicalOf(expanded, before[j])]

----------------------------------------------------------------------------
(* C24.  Running replace_output_wires with a list of output wires that is   *)
(* already canonical (each output at its rank among the outputs of its      *)
(* type): on a body without For gate no gate is appended and every gate     *)
(* names the same wires in the same places, a wire range that holds an      *)
(* output possibly written as the list of its wires; on a body with a For   *)
(* gate no gate is modified and one gate Copy(type, i, i) per output is     *)
(* appended.                                                                *)

IsCanonical(output_wires) ==
    LET expanded == expand_wirelist(output_wires)
    IN  \A i \in DOMAIN expanded : expanded[i][2] = CountBefore(expanded, i)

\* A gate with its wire lists written wire by wire
Expanded(gate) ==
    IF gate.kind \in {"Convert", "AnonCall", "Call"}
    THEN LET wires(l) == LET e == expand_wirelist(l)
                         IN  [j \in DOMAIN e |-> Wire(e[j][1], e[j][2])]
         IN  [gate EXCEPT !.output_wires = wires(@), !.input_wires = wires(@)]
    ELSE gate

\* C24 as claimed: the gate list is exactly what it was
C24_CanonicalRunIsNoOp ==
    \A r \in 1..Len(renum.runs) :
        LET run == renum.runs[r]
        IN  IsCanonical(run.output_wires) => run.returned.gates = run.gates

\* C24 amended
C24_CanonicalRunKeepsWires ==
    \A r \in 1..Len(renum.runs) :
        LET run == renum.runs[r]
            expanded == expand_wirelist(run.output_wires)
        IN  IsCanonical(run.output_wires) =>
                IF HasFor(run.gates)
                THEN run.returned.gates
                        = run.gates \o [i \in DOMAIN expanded |->
                                           WithType(expanded[i][1],
                                                    Copy(expanded[i][2], expanded[i][2]))]
                ELSE /\ Len(run.returned.gates) = Len(run.gates)
                     /\ \A k \in DOMAIN run.gates :
                           Expanded(run.returned.gates[k]) = Expanded(run.gates[k])

\* A body with a Call gate was renumbered, which moved two outputs, and
\* renumbered again with the canonical list, which left it as it was.
C24_Witness ==
    /\ Len(renum.runs) = 2
    /\ ~HasFor(renum.gates)
    /\ \E k \in DOMAIN renum.gates : renum.gates[k].kind = "Call"
    /\ Len(expand_wirelist(renum.output_wires)) = 2
    /\ ~IsCanonical(renum.output_wires)
    /\ renum.runs[1].returned.gates # renum.gates
    /\ renum.runs[2].returned.result = "Ok"
    /\ renum.runs[2].returned.gates = renum.runs[1].returned.gates

----------------------------------------------------------------------------
(* C25.  If a declared output wire lies inside a wire range of a Call,      *)
(* AnonCall or Convert gate of the body (its output or its input list), a   *)
(* successful replace_output_wires leaves every gate of the body as it is   *)
(* and appends the gate Copy(type, canonical id, old id) for that output.   *)
(* The gates of gates.rs have no bulk allocation gate, so the ranges of     *)
(* those three gates are the ranges a body can hold.  The code does not     *)
(* keep the property: in a body without For gate the Convert, AnonCall and  *)
(* Call arms rewrite the lists in place and no Copy gate is appended.       *)

\* The wire lists of gate k that hold the output wire inside a range
ListsHolding(gate, wire) ==
    IF gate.kind \notin {"Convert", "AnonCall", "Call"} THEN {}
    ELSE {f \in {"output_wires", "input_wires"} :
             \E j \in DOMAIN gate[f] :
                 /\ gate[f][j].elem = "WireRange"
                 /\ gate[f][j].field_id = wire[1]
                 /\ gate[f][j].first <= wire[2] /\ wire[2] <= gate[f][j].last}

\* The output wires of a run that lie inside a range of the body
OutputsInRanges(run) ==
    LET expanded == expand_wirelist(run.output_wires)
    IN  {i \in DOMAIN expanded :
            \E k \in DOMAIN run.gates : ListsHolding(run.gates[k], expanded[i]) # {}}

CopyOfOutput(expanded, i) ==
    WithType(expanded[i][1], Copy(CountBefore(expanded, i), expanded[i][2]))

\* C25: the body is kept and the Copy gate of the output is appended
C25_RangeKeptCopyAppended ==
    \A r \in 1..Len(renum.runs) :
        LET run == renum.runs[r]
            expanded == expand_wirelist(run.output_wires)
        IN  \A i \in OutputsInRanges(run) :
                run.returned.result = "Ok" =>
                    /\ IsPrefix(run.gates, run.returned.gates)
                    /\ \E k \in (Len(run.gates) + 1)..Len(run.returned.gates) :
                          run.returned.gates[k] = CopyOfOutput(expanded, i)

----------------------------------------------------------------------------
(* C26.  When the body holds a For gate, replace_output_wires returns Ok,   *)
(* leaves the gates of the body as they are and appends, in the order of    *)
(* the outputs, one gate Copy(type, i, output wire) per declared output,    *)
(* i being the rank of the output among the outputs of its type.            *)

C26_ForBodyGetsCopies ==
    \A r \in 1..Len(renum.runs) :
        LET run == renum.runs[r]
            expanded == expand_wirelist(run.output_wires)
        IN  HasFor(run.gates) =>
                /\ run.returned.result = "Ok"
                /\ run.returned.gates
                      = run.gates \o [i \in DOMAIN expanded |-> CopyOfOutput(expanded, i)]

\* A body with a For gate and a gate on wire 1, and three outputs of two
\* types, one of them wire 1: the three Copy gates were appended, the
\* last one to wire 0 of type 1.
C26_Witness ==
    /\ Len(renum.runs) = 1
    /\ HasFor(renum.gates) /\ Len(renum.gates) = 2
    /\ \E k \in DOMAIN renum.gates : renum.gates[k] = WithType(0, Constant(1, <<1>>))
    /\ renum.output_wires = <<WireListRange(0, 1, 2), Wire(1, 1)>>
    /\ SubSeq(renum.runs[1].returned.gates, 3, 5)
          = <<WithType(0, Copy(0, 1)), WithType(0, Copy(1, 2)), WithType(1, Copy(0, 1))>>

----------------------------------------------------------------------------
(* C27.  Whenever a Free gate of the body frees a declared output wire of   *)
(* its type (the wire is `first` when last is None, or lies in              *)
(* first..=last), replace_output_wires returns an error, with or without    *)
(* a For gate in the body.                                                  *)

Frees(gate, wire) ==
    /\ gate.kind = "Free"
    /\ gate.type = wire[1]
    /\ IF gate.last = None THEN gate.first = wire[2]
       ELSE gate.first <= wire[2] /\ wire[2] <= gate.last[1]

C27_FreedOutputIsError ==
    \A r \in 1..Len(renum.runs) :
        LET run == renum.runs[r]
            expanded == expand_wirelist(run.output_wires)
        IN  (\E k \in DOMAIN run.gates, i \in DOMAIN expanded :
                 Frees(run.gates[k], expanded[i]))
                => run.returned.result = "Err"

----------------------------------------------------------------------------
(* C28.  GateBuilder::create_complex_gate(Call(name, inputs), public,       *)
(* private) returns an error when the name is not declared, when the        *)
(* input ranges are not one range per declared input count with that many   *)
(* wires, or when for some type the number of public or of private values   *)
(* supplied is not the one recorded for the function;                       *)
(* FunctionBuilder::create_complex_gate(Call) in the first two cases.       *)
(* Otherwise the call returns Ok with one range per declared output count,  *)
(* of exactly that many wires, allocated at the counter of its type.        *)

\* The number of values supplied for a type
Supplied(inputs, type_id) ==
    IF type_id + 1 \in DOMAIN inputs THEN Len(inputs[type_id + 1]) ELSE 0

InputsMatch(in_ids, input_count) ==
    [k \in DOMAIN in_ids |-> RangeLen(in_ids[k].first_id, in_ids[k].last_id)]
        = [k \in DOMAIN input_count |-> input_count[k].count]

\* The ranges returned are those of the output counts, each at the counter
\* of its type moved past the ranges before it
FreshOutputs(out_ids, output_count, next_available_id) ==
    /\ Len(out_ids) = Len(output_count)
    /\ \A k \in DOMAIN output_count :
          LET type_id == output_count[k].type_id
              RECURSIVE before(_)
              before(j) == IF j = 0 THEN CounterOf(next_available_id, type_id)
                           ELSE before(j - 1)
                                  + (IF output_count[j].type_id = type_id
                                     THEN output_count[j].count ELSE 0)
          IN  /\ out_ids[k].first_id = before(k - 1)
              /\ RangeLen(out_ids[k].first_id, out_ids[k].last_id) = output_count[k].count

IsCallOf(call, op) == call.op = op /\ call.gate.kind = "Call"

C28_CallSiteChecked ==
    \A n \in 1..Len(builder.calls) :
        LET call == builder.calls[n]
            known == call.before.known_functions
            name == call.gate.name
            refused ==
                \/ name \notin DOMAIN known
                \/ ~InputsMatch(call.gate.in_ids, known[name].input_count)
                \/ /\ call.op = "GateBuilder::create_complex_gate"
                   /\ \E t \in TypeIds :
                         \/ Supplied(call.public_inputs, t)
                               # CounterOf(known[name].public_count, t)
                         \/ Supplied(call.private_inputs, t)
                               # CounterOf(known[name].private_count, t)
        IN  (IsCallOf(call, "GateBuilder::create_complex_gate")
               \/ IsCallOf(call, "FunctionBuilder::create_complex_gate")) =>
                /\ ~call.panic
                /\ refused => ~call.result.ok
                /\ ~refused =>
                      /\ call.result.ok
                      /\ FreshOutputs(call.result.value, known[name].output_count,
                                      call.before.next_available_id)

----------------------------------------------------------------------------
(* C29.  Function names are unique and signatures immutable: push_function  *)
(* and push_plugin with a name already declared return an error and leave   *)
(* the builder as it was (no function, plugin or conversion is added); a    *)
(* successful declaration records the counts it was given, and the counts   *)
(* recorded for a name are the same after every later operation.            *)

IsDeclaration(call) == call.op \in {"push_function", "push_plugin"}

OnGateBuilder(call) ==
    IsDeclaration(call) \/ call.op = "GateBuilder::create_complex_gate"

\* The counts a declaration is made with
SignatureOf(call) ==
    IF call.op = "push_function"
    THEN [input_count |-> call.infos.function.input_count,
          output_count |-> call.infos.function.output_count,
          public_count |-> call.infos.public_count,
          private_count |-> call.infos.private_count]
    ELSE [input_count |-> call.function.input_count,
          output_count |-> call.function.output_count,
          public_count |-> call.function.body.public_count,
          private_count |-> call.function.body.private_count]

RecordedAs(known_functions, name, signature) ==
    name \in DOMAIN known_functions /\ known_functions[name] = signature

C29_NamesUniqueSignaturesImmutable ==
    \A n \in 1..Len(builder.calls) :
        LET call == builder.calls[n]
        IN  /\ IsDeclaration(call) /\ call.name \in DOMAIN call.before.known_functions =>
                  ~call.result.ok /\ call.after = call.before
            /\ IsDeclaration(call) /\ call.result.ok =>
                  RecordedAs(call.after.known_functions, call.name, SignatureOf(call))
            /\ OnGateBuilder(call) =>
                  \A name \in DOMAIN call.before.known_functions :
                      /\ RecordedAs(call.after.known_functions, name,
                                  call.before.known_functions[name])
                      /\ RecordedAs(builder.gb.known_functions, name,
                                  call.before.known_functions[name])

\* f is declared, then declared again with other counts by push_function
\* and by push_plugin
C29_Witness ==
    /\ Len(builder.calls) = 3
    /\ builder.calls[1].op = "push_function" /\ builder.calls[1].result.ok
    /\ builder.calls[2].op = "push_function" /\ ~builder.calls[2].result.ok
    /\ builder.calls[2].name = builder.calls[1].name
    /\ SignatureOf(builder.calls[2]) # SignatureOf(builder.calls[1])
    /\ builder.calls[2].infos.used_conversions # {}
    /\ builder.calls[3].op = "push_plugin" /\ ~builder.calls[3].result.ok
    /\ builder.calls[3].name = builder.calls[1].name
    /\ builder.calls[3].function.body.plugin
    /\ RecordedAs(builder.gb.known_functions, builder.calls[1].name,
                SignatureOf(builder.calls[1]))
    /\ builder.gb.msg_build.relation.conversions = <<>>
    /\ builder.gb.msg_build.relation.plugins = <<>>
    /\ Len(builder.gb.msg_build.relation.functions) = 1

----------------------------------------------------------------------------
(* C30.  Conversions are declared once: the conversion table of the         *)
(* relation never holds a conversion twice and only grows at its end; a     *)
(* Convert gate created, or a function pushed, adds to it exactly the       *)
(* conversions it uses that the table does not hold yet; using a            *)
(* conversion the table holds adds nothing, and creating such a Convert     *)
(* gate succeeds.                                                           *)

TableOf(gb) == gb.msg_build.relation.conversions

Declared(gb) == {TableOf(gb)[k] : k \in DOMAIN TableOf(gb)}

\* The conversions a call on the GateBuilder uses
UsedBy(call) ==
    IF call.op = "GateBuilder::create_complex_gate" /\ call.gate.kind = "Convert"
    THEN {[output_count |-> [type_id |-> call.gate.out_type_id,
                             count |-> call.gate.output_wire_count],
           input_count |-> [type_id |-> call.gate.in_type_id,
                            count |-> RangeLen(call.gate.in_first_id,
                                               call.gate.in_last_id)]]}
    ELSE IF call.op = "push_function" THEN call.infos.used_conversions
    ELSE {}

C30_ConversionsDeclaredOnce ==
    /\ Cardinality(Declared(builder.gb)) = Len(TableOf(builder.gb))
    /\ \A n \in 1..Len(builder.calls) :
          LET call == builder.calls[n]
          IN  OnGateBuilder(call) =>
                /\ IsPrefix(TableOf(call.before), TableOf(call.after))
                /\ Cardinality(Declared(call.after)) = Len(TableOf(call.after))
                /\ call.result.ok =>
                      Declared(call.after) = Declared(call.before) \cup UsedBy(call)
                /\ UsedBy(call) \subseteq Declared(call.before) =>
                      TableOf(call.after) = TableOf(call.before)
                /\ /\ UsedBy(call) # {}
                   /\ UsedBy(call) \subseteq Declared(call.before)
                   /\ call.op = "GateBuilder::create_complex_gate"
                   /\ call.public_inputs = <<>> /\ call.private_inputs = <<>>
                   => call.result.ok

\* A Convert gate declares its conversion; a function using it is pushed and
\* the same Convert gate is created again: both succeed, the table holds
\* the conversion once
C30_Witness ==
    /\ Len(builder.calls) = 3
    /\ builder.calls[1].op = "GateBuilder::create_complex_gate"
    /\ builder.calls[1].gate.kind = "Convert" /\ builder.calls[1].result.ok
    /\ TableOf(builder.calls[1].before) = <<>>
    /\ builder.calls[2].op = "push_function" /\ builder.calls[2].result.ok
    /\ builder.calls[2].infos.used_conversions = UsedBy(builder.calls[1])
    /\ builder.calls[3].op = "GateBuilder::create_complex_gate"
    /\ builder.calls[3].gate = builder.calls[1].gate /\ builder.calls[3].result.ok
    /\ Len(TableOf(builder.gb)) = 1
    /\ Declared(builder.gb) = UsedBy(builder.calls[1])

----------------------------------------------------------------------------
(* C31.  The reduction terminates: whatever the gates (with bodies nested   *)
(* finitely) and the mask, the calls of exp_definable_gate come to an end,  *)
(* by returning or by a panic, after at most three calls per gate of the    *)
(* input; the gates one input gate is replaced by in turn are of different  *)
(* kinds (no Add -> Xor -> Add, no Mul -> And -> Mul) and at most three     *)
(* replacements follow one another.  What the calls leave is what           *)
(* exp_definable_gate computes.                                             *)

\* The gates of a list, those of the bodies at any depth counted
RECURSIVE GateCount(_)
GateCount(gates) ==
    IF gates = <<>> THEN 0
    ELSE LET gate == Head(gates)
             RECURSIVE inside(_)
             inside(branches) ==
                 IF branches = <<>> THEN 0
                 ELSE (IF Head(branches).case = "AbstractAnonCall"
                       THEN GateCount(Head(branches).body) ELSE 0)
                      + inside(Tail(branches))
         IN  1 + GateCount(Tail(gates))
               + (CASE gate.kind = "AnonCall" -> GateCount(gate.subcircuit)
                    [] HasBody(gate) /\ gate.kind = "For" -> GateCount(gate.body.subcircuit)
                    [] gate.kind = "Switch" -> inside(gate.branches)
                    [] OTHER -> 0)

\* The kinds of the gates that replaced one another, down to the gate the
\* next call is made on
KindsInTurn ==
    IF red.chain = <<>> \/ red.panic # "" THEN red.chain
    ELSE Append(red.chain, Head(Top(red.stack).gates).kind)

Ended == Completed \/ red.panic # ""

\* exp_definable_gate on every gate in turn, in one evaluation
InOneEvaluation ==
    exp_definable_body(red.gates,
        [free_temporary_wire |-> red.tmp_wire_start, output_gates |-> <<>>, panic |-> ""],
        red.gate_mask)

CallsBounded ==
    /\ red.calls <= 3 * GateCount(red.gates)
    /\ Len(red.chain) <= 3
    /\ \A i, j \in DOMAIN KindsInTurn : i # j => KindsInTurn[i] # KindsInTurn[j]
    /\ Ended =>
          /\ InOneEvaluation.panic = red.panic
          /\ red.panic = "" =>
                /\ InOneEvaluation.output_gates = red.stack[1].output_gates
                /\ InOneEvaluation.free_temporary_wire = red.free_temporary_wire

C31_ReductionTerminates == []CallsBounded /\ <>Ended

\* An AddConstant gate in a body was replaced by an Add gate, itself
\* replaced by a Xor gate, and the calls came to an end
C31_Witness ==
    /\ Completed /\ red.panic = ""
    /\ red.longest = 2
    /\ red.calls = 3 * GateCount(red.gates) - 2
    /\ Len(red.gates) = 1 /\ red.gates[1].kind \in {"AnonCall", "Switch", "For"}
    /\ \E g \in AllGates(red.stack[1].output_gates) :
           g.kind = "Xor" /\ g.right = red.tmp_wire_start + 1

----------------------------------------------------------------------------
(* C32.  In one call of exp_definable_from started at the counter t that    *)
(* returns, the Constant gates inserted write the wires t, t+1, ..,        *)
(* t+k-1 in the order of the rewrites, those inside bodies included; the   *)
(* counter returned is t+k, k being the number of Constant gates inserted;  *)
(* when t is above every wire of the input, no inserted gate writes a wire  *)
(* of the input.                                                            *)

\* The gates of a list in the order they are gone through, each gate with
\* a body followed by the gates of its bodies
RECURSIVE InOrder(_)
InOrder(gates) ==
    IF gates = <<>> THEN <<>>
    ELSE LET gate == Head(gates)
             RECURSIVE inside(_)
             inside(branches) ==
                 IF branches = <<>> THEN <<>>
                 ELSE (IF Head(branches).case = "AbstractAnonCall"
                       THEN InOrder(Head(branches).body) ELSE <<>>)
                      \o inside(Tail(branches))
         IN  <<gate>>
               \o (CASE gate.kind = "AnonCall" -> InOrder(gate.subcircuit)
                     [] HasBody(gate) /\ gate.kind = "For" -> InOrder(gate.body.subcircuit)
                     [] gate.kind = "Switch" -> inside(gate.branches)
                     [] OTHER -> <<>>)
               \o InOrder(Tail(gates))

IsConstant(gate) == gate.kind = "Constant"

\* The Constant gates of the output that are not gates of the input
Inserted(run) ==
    LET given == AllGates(run.relation.gates)
        inserted(gate) == IsConstant(gate) /\ gate \notin given
    IN  SelectSeq(InOrder(run.returned.relation.gates), inserted)

WiresOfInput(run) == UNION {WiresOf(g) : g \in AllGates(run.relation.gates)}

C32_TemporariesFreshInOrder ==
    \A n \in 1..Len(red.runs) :
        LET run == red.runs[n]
            t == run.tmp_wire_start
            k == Len(Inserted(run))
        IN  Returned(run) =>
              /\ \A i \in 1..k : Inserted(run)[i].out = t + i - 1
              /\ run.returned.free_temporary_wire = t + k
              /\ k = Len(SelectSeq(InOrder(run.returned.relation.gates), IsConstant))
                        - Len(SelectSeq(InOrder(run.relation.gates), IsConstant))
              /\ (\A w \in WiresOfInput(run) : w < t) =>
                    \A i \in 1..k : Inserted(run)[i].out \notin WiresOfInput(run)

\* Two temporary wires were taken inside a body and a third one after it
C32_Witness ==
    /\ Len(red.runs) >= 1 /\ Returned(red.runs[1])
    /\ Len(red.relation.gates) = 3
    /\ red.relation.gates[1].kind = "AnonCall"
    /\ Len(Inserted(red.runs[1])) = 3
    /\ Len(SelectSeq(red.runs[1].returned.relation.gates[1].subcircuit, IsConstant)) = 2
    /\ red.runs[1].returned.relation.gates[2] = Constant(red.tmp_wire_start + 2, <<1>>)
    /\ red.runs[1].returned.free_temporary_wire = red.tmp_wire_start + 3
    /\ \A w \in WiresOfInput(red.runs[1]) : w < red.tmp_wire_start

----------------------------------------------------------------------------
(* C33.  The rewrite rules of the gates without body.  A relation of one    *)
(* gate that the mask does not allow is reduced: an AddConstant gate to     *)
(* Constant(tmp, k) followed by the reduction of Add(out, in, tmp), a       *)
(* MulConstant gate likewise with Mul, a Not gate to Constant(tmp, 1)       *)
(* followed by the reduction of Xor(out, in, tmp), an Add gate to the       *)
(* reduction of Xor and a Mul gate to the reduction of And on the same      *)
(* wires, an And gate to Mul and a Xor gate to Add on the same wires when   *)
(* the mask allows that kind.  The gate that replaces the gate given        *)
(* writes its output wire and reads its input wires.                        *)

\* The reduction of one gate from the counter t, under the header and the
\* masks of a run
ReductionOfGate(run, gate, t) ==
    exp_definable_from(
        Relation(run.relation.header, run.relation.gate_mask, SIMPLE, <<>>, <<gate>>),
        run.gate_mask, t)

\* The run gives the gates `first` followed by the reduction of `gate`,
\* or aborts as that reduction does
FollowedByReductionOf(run, first, gate) ==
    LET reduction == ReductionOfGate(run, gate, run.tmp_wire_start + Len(first))
    IN  /\ run.returned.panic = reduction.panic
        /\ Returned(run) =>
              /\ run.returned.relation.gates = first \o reduction.relation.gates
              /\ run.returned.free_temporary_wire = reduction.free_temporary_wire

ReadsOf(gate) == {gate[f] : f \in DOMAIN gate \cap {"inp", "left", "right"}}

C33_LeafRewriteRules ==
    \A n \in 1..Len(red.runs) :
        LET run == red.runs[n]
            gate == run.relation.gates[1]
            t == run.tmp_wire_start
            disallowed == gate.kind \in MaskedKinds
                            /\ FeatureOf(gate.kind) \notin run.gate_mask
        IN  (Len(run.relation.gates) = 1 /\ disallowed) =>
              /\ gate.kind = "AddConstant" =>
                    FollowedByReductionOf(run, <<Constant(t, gate.constant)>>,
                                          Add(gate.out, gate.inp, t))
              /\ gate.kind = "MulConstant" =>
                    FollowedByReductionOf(run, <<Constant(t, gate.constant)>>,
                                          Mul(gate.out, gate.inp, t))
              /\ gate.kind = "Not" =>
                    /\ FollowedByReductionOf(run, <<Constant(t, <<1, 0, 0, 0>>)>>,
                                             Xor(gate.out, gate.inp, t))
                    /\ from_bytes_le(<<1, 0, 0, 0>>) = 1
              /\ gate.kind = "Add" =>
                    FollowedByReductionOf(run, <<>>, Xor(gate.out, gate.left, gate.right))
              /\ gate.kind = "Mul" =>
                    FollowedByReductionOf(run, <<>>, And(gate.out, gate.left, gate.right))
              /\ (gate.kind = "And" /\ Returned(run)) =>
                    run.returned.relation.gates = <<Mul(gate.out, gate.left, gate.right)>>
              /\ (gate.kind = "Xor" /\ Returned(run)) =>
                    run.returned.relation.gates = <<Add(gate.out, gate.left, gate.right)>>
              /\ (gate.kind = "And" /\ "MUL" \in run.gate_mask
                     /\ ~HasBoolean(run.relation.gate_mask \cup run.gate_mask)) =>
                    Returned(run)
              /\ (gate.kind = "Xor" /\ "ADD" \in run.gate_mask
                     /\ ~HasBoolean(run.relation.gate_mask \cup run.gate_mask)) =>
                    Returned(run)
              /\ Returned(run) =>
                    LET replacement == Last(run.returned.relation.gates)
                    IN  /\ replacement.kind \in MaskedKinds
                        /\ replacement.kind # gate.kind
                        /\ replacement.out = gate.out
                        /\ ReadsOf(gate) \subseteq ReadsOf(replacement)
                        /\ ReadsOf(replacement) \ ReadsOf(gate) \subseteq {t}

\* Not(2, 0) was reduced to a mask without NOT and XOR and with ADD
C33_Witness ==
    /\ Len(red.runs) = 1 /\ Returned(red.runs[1])
    /\ red.relation.gates = <<Not(2, 0)>>
    /\ red.gate_mask \cap {"NOT", "XOR", "ADD"} = {"ADD"}
    /\ red.runs[1].returned.relation.gates
          = <<Constant(red.tmp_wire_start, <<1, 0, 0, 0>>),
              Add(2, 0, red.tmp_wire_start)>>

----------------------------------------------------------------------------
(* C34.  The reduction keeps the structure and the order: a gate of an      *)
(* allowed kind, or of a kind without rewrite rule, is emitted as it is;    *)
(* the gates emitted for a gate of the input come before those emitted for  *)
(* the next one; an AnonCall, Switch or For gate is emitted once, with its  *)
(* wires, counts, case values and loop bounds, each anonymous body being    *)
(* the reduction of the body it had.                                        *)

\* The reduction of a list of gates from the counter t, under the header
\* and the masks of a run
ReductionOfGates(run, gates, t) ==
    exp_definable_from(
        Relation(run.relation.header, run.relation.gate_mask, SIMPLE, <<>>, gates),
        run.gate_mask, t)

\* What the claim has the run emit for the gates from the counter t, and
\* the counter afterwards
RECURSIVE StructureKept(_, _, _)
StructureKept(run, gates, t) ==
    IF gates = <<>> THEN [gates |-> <<>>, t |-> t]
    ELSE LET gate == Head(gates)
             RECURSIVE branches(_, _)
             branches(cases, t0) ==
                 IF cases = <<>> THEN [gates |-> <<>>, t |-> t0]
                 ELSE LET case == Head(cases)
                          body == ReductionOfGates(run, case.body, t0)
                          kept == IF case.case = "AbstractAnonCall"
                                  THEN [case EXCEPT !.body = body.relation.gates]
                                  ELSE case
                          later == branches(Tail(cases),
                                            IF case.case = "AbstractAnonCall"
                                            THEN body.free_temporary_wire ELSE t0)
                      IN  [gates |-> <<kept>> \o later.gates, t |-> later.t]
             first ==
                 CASE gate.kind = "AnonCall" ->
                        LET body == ReductionOfGates(run, gate.subcircuit, t)
                        IN  [gates |-> <<[gate EXCEPT !.subcircuit = body.relation.gates]>>,
                             t |-> body.free_temporary_wire]
                   [] gate.kind = "Switch" ->
                        LET new == branches(gate.branches, t)
                        IN  [gates |-> <<[gate EXCEPT !.branches = new.gates]>>, t |-> new.t]
                   [] gate.kind = "For" /\ gate.body.body = "IterExprAnonCall" ->
                        LET body == ReductionOfGates(run, gate.body.subcircuit, t)
                        IN  [gates |-> <<[gate EXCEPT
                                            !.body.subcircuit = body.relation.gates]>>,
                             t |-> body.free_temporary_wire]
                   [] gate.kind \in MaskedKinds /\ FeatureOf(gate.kind) \notin run.gate_mask ->
                        LET rule == ReductionOfGates(run, <<gate>>, t)
                        IN  [gates |-> rule.relation.gates, t |-> rule.free_temporary_wire]
                   [] OTHER -> [gates |-> <<gate>>, t |-> t]
             later == StructureKept(run, Tail(gates), first.t)
         IN  [gates |-> first.gates \o later.gates, t |-> later.t]

C34_StructureAndOrderKept ==
    \A n \in 1..Len(red.runs) :
        LET run == red.runs[n]
            kept == StructureKept(run, run.relation.gates, run.tmp_wire_start)
        IN  Returned(run) =>
              /\ run.returned.relation.gates = kept.gates
              /\ run.returned.free_temporary_wire = kept.t

\* An AnonCall gate whose body was rewritten comes first and once, the
\* Constant gate of the input comes last, as it was
C34_Witness ==
    /\ Len(red.runs) = 1 /\ Returned(red.runs[1])
    /\ Len(red.relation.gates) = 3
    /\ red.gate_mask \cap {"ADDC", "NOT", "MULC"} = {}
    /\ LET given == red.relation.gates
           emitted == red.runs[1].returned.relation.gates
       IN  /\ Len(emitted) = 4
           /\ emitted[1].kind = "AnonCall"
           /\ emitted[1].output_wires = given[1].output_wires
           /\ emitted[1].input_wires = given[1].input_wires
           /\ Len(emitted[1].subcircuit) = 4
           /\ emitted[4] = given[3] /\ given[3].kind = "Constant"
           /\ emitted[3].out = given[2].out

----------------------------------------------------------------------------
(* C35.  The local numbering of a function under construction: whatever    *)
(* the lists of output and input counts, also when a list names a type      *)
(* more than once, input_wires returns one (type, id) pair per declared     *)
(* input wire, pairwise distinct, the ids of a type being the ids that      *)
(* follow the declared outputs of that type, without gap; the first wire    *)
(* the body allocates for a type is the id after its last input id.         *)

\* The wires a list of counts declares for a type
RECURSIVE DeclaredFor(_, _)
DeclaredFor(counts, type_id) ==
    IF counts = <<>> THEN 0
    ELSE (IF Head(counts).type_id = type_id THEN Head(counts).count ELSE 0)
           + DeclaredFor(Tail(counts), type_id)

\* The ids of the pairs of a type, in the order of the list
IdsOf(pairs, type_id) ==
    LET of_type(pair) == pair[1] = type_id
        kept == SelectSeq(pairs, of_type)
    IN  [k \in DOMAIN kept |-> kept[k][2]]

C35_LocalNumbering ==
    \A n \in 1..Len(builder.calls) :
        LET call == builder.calls[n]
            fb == call.before
            first(type_id) == DeclaredFor(fb.output_count, type_id)
            after_inputs(type_id) == first(type_id) + DeclaredFor(fb.input_count, type_id)
        IN  /\ (call.op = "input_wires" /\ call.result.ok) =>
                  LET pairs == call.result.value
                  IN  /\ \A i, j \in DOMAIN pairs : i # j => pairs[i] # pairs[j]
                      /\ \A k \in DOMAIN pairs : pairs[k][1] \in TypeIds
                      /\ \A type_id \in TypeIds :
                            IdsOf(pairs, type_id)
                              = [k \in 1..DeclaredFor(fb.input_count, type_id) |->
                                    first(type_id) + k - 1]
            /\ (call.op = "FunctionBuilder::create_gate" /\ has_output(call.gate)
                   /\ fb.gates = <<>>) =>
                  call.result.value = after_inputs(call.gate.type_id)

----------------------------------------------------------------------------
(* C36.  The input counts of a built function: the public (private) count   *)
(* of a type that finish returns is the number of PublicInput               *)
(* (PrivateInput) gates created for that type in the FunctionBuilder plus   *)
(* the public (private) counts recorded for the functions its successful    *)
(* Call gates name; a Call that returns an error leaves the counts, the     *)
(* wire counters and the gates of the FunctionBuilder as they were.         *)

\* The call that made the FunctionBuilder the n-th call is made on
MadeAt(n) ==
    CHOOSE m \in 1..n :
        /\ builder.calls[m].op = "new_function_builder"
        /\ \A k \in (m + 1)..n : builder.calls[k].op # "new_function_builder"

\* What the k-th call consumes of the inputs `which` of a type
Consumed(k, which, type_id) ==
    LET call == builder.calls[k]
    IN  IF call.op = "FunctionBuilder::create_gate"
        THEN IF call.gate.build = (IF which = "public" THEN "PublicInput" ELSE "PrivateInput")
                /\ call.gate.type_id = type_id
             THEN 1 ELSE 0
        ELSE IF IsCallOf(call, "FunctionBuilder::create_complex_gate") /\ call.result.ok
        THEN CounterOf(IF which = "public"
                       THEN call.before.known_functions[call.gate.name].public_count
                       ELSE call.before.known_functions[call.gate.name].private_count,
                       type_id)
        ELSE 0

RECURSIVE ConsumedFrom(_, _, _, _)
ConsumedFrom(m, n, which, type_id) ==
    IF m > n THEN 0
    ELSE Consumed(m, which, type_id) + ConsumedFrom(m + 1, n, which, type_id)

C36_InputCountsTracked ==
    \A n \in 1..Len(builder.calls) :
        LET call == builder.calls[n]
        IN  /\ (call.op = "finish" /\ call.result.ok) =>
                  \A type_id \in TypeIds :
                      /\ CounterOf(call.result.value.public_count, type_id)
                            = ConsumedFrom(MadeAt(n) + 1, n - 1, "public", type_id)
                      /\ CounterOf(call.result.value.private_count, type_id)
                            = ConsumedFrom(MadeAt(n) + 1, n - 1, "private", type_id)
            /\ (IsCallOf(call, "FunctionBuilder::create_complex_gate")
                   /\ ~call.result.ok /\ ~call.panic) =>
                  /\ call.after.public_count = call.before.public_count
                  /\ call.after.private_count = call.before.private_count
                  /\ call.after.next_available_id = call.before.next_available_id
                  /\ call.after.gates = call.before.gates

\* A function with a public input gate and a Call of g is finished: it
\* takes two public values and one private value
C36_Witness ==
    /\ Len(builder.calls) = 5
    /\ builder.calls[1].op = "push_function" /\ builder.calls[1].name = "g"
    /\ builder.calls[2].op = "new_function_builder"
    /\ \E i, j \in 3..4 :
          /\ builder.calls[i].op = "FunctionBuilder::create_gate"
          /\ builder.calls[i].gate.build = "PublicInput"
          /\ IsCallOf(builder.calls[j], "FunctionBuilder::create_complex_gate")
          /\ builder.calls[j].result.ok /\ builder.calls[j].gate.name = "g"
    /\ builder.calls[5].op = "finish" /\ builder.calls[5].result.ok
    /\ builder.calls[5].result.value.public_count = (0 :> 2)
    /\ builder.calls[5].result.value.private_count = (1 :> 1)

----------------------------------------------------------------------------
(* C37.  Renumbering never merges wires: after a successful                 *)
(* replace_output_wires on a body without For gate, with pairwise distinct  *)
(* output wires, two occurrences of wires of one type that named different  *)
(* ids name different ids, also when a canonical id 0..count-1 occurs in    *)
(* the body or is itself an output declared at another position.            *)

\* The (type, id) pairs the gates name, gate after gate
RECURSIVE AllOccurrences(_)
AllOccurrences(gates) ==
    IF gates = <<>> THEN <<>>
    ELSE Occurrences(Head(gates)) \o AllOccurrences(Tail(gates))

C37_NoWiresMerged ==
    \A r \in 1..Len(renum.runs) :
        LET run == renum.runs[r]
            before == AllOccurrences(run.gates)
            after == AllOccurrences(run.returned.gates)
        IN  (run.returned.result = "Ok" /\ ~HasFor(run.gates)) =>
                /\ Len(after) = Len(before)
                /\ \A i, j \in DOMAIN before :
                      (before[i][1] = before[j][1] /\ before[i][2] # before[j][2])
                          => after[i] # after[j]

----------------------------------------------------------------------------
(* C38.  Renumbering is all-or-nothing: when replace_output_wires returns   *)
(* an error, the gate list is exactly the list it was given, no output      *)
(* wire rewritten.                                                          *)

C38_ErrorLeavesGates ==
    \A r \in 1..Len(renum.runs) :
        renum.runs[r].returned.result = "Err"
            => renum.runs[r].returned.gates = renum.runs[r].gates

----------------------------------------------------------------------------
(* C39.  A failed request leaves the GateBuilder unchanged: when            *)
(* create_gate or create_complex_gate (Call or Convert) returns an error,   *)
(* no wire id has been allocated, no gate pushed, no public or private      *)
(* value queued, and no conversion added to the conversions of the          *)
(* relation or to the known conversions.                                    *)

IsRequest(call) ==
    call.op \in {"GateBuilder::create_gate", "GateBuilder::create_complex_gate"}

C39_FailedRequestChangesNothing ==
    \A k \in DOMAIN builder.calls :
        LET call == builder.calls[k]
        IN  (IsRequest(call) /\ ~call.result.ok /\ ~call.panic) =>
                /\ call.after.next_available_id = call.before.next_available_id
                /\ call.after.msg_build.relation.gates = call.before.msg_build.relation.gates
                /\ call.after.msg_build.sink = call.before.msg_build.sink
                /\ call.after.msg_build.public_inputs = call.before.msg_build.public_inputs
                /\ call.after.msg_build.private_inputs = call.before.msg_build.private_inputs
                /\ call.after.msg_build.relation.conversions
                      = call.before.msg_build.relation.conversions
                /\ call.after.known_conversions = call.before.known_conversions

----------------------------------------------------------------------------
(* C40.  Delivery to the sink: after create_gate, create_complex_gate and   *)
(* push_function calls followed by finish, with max_len >= 1, the gate      *)
(* lists of the relation messages in the sink, concatenated in push order,  *)
(* are the gates created, each once and in order; every function pushed is  *)
(* in exactly one relation message, which comes no later than the message   *)
(* of any gate created after the function; and after every call fewer than  *)
(* max_len gates are buffered.                                              *)

RelationMessages(sink) == SelectSeq(sink, LAMBDA m : m.message = "relation")

RECURSIVE GatesOfMessages(_)
GatesOfMessages(messages) ==
    IF messages = <<>> THEN <<>>
    ELSE Head(messages).relation.gates \o GatesOfMessages(Tail(messages))

\* The gates the first k calls created, in order
RECURSIVE CreatedBy(_)
CreatedBy(k) ==
    IF k = 0 THEN <<>>
    ELSE LET call == builder.calls[k]
         IN  IF ~call.result.ok THEN CreatedBy(k - 1)
             ELSE IF call.op = "GateBuilder::create_gate"
             THEN Append(CreatedBy(k - 1), BuildGate_with_output(call.gate, call.result.value))
             ELSE IF call.op = "GateBuilder::create_complex_gate"
             THEN Append(CreatedBy(k - 1), with_output(call.gate, call.result.value))
             ELSE CreatedBy(k - 1)

Creates(k) == Len(CreatedBy(k)) = Len(CreatedBy(k - 1)) + 1

\* The relation message that holds the gate at position p of the gates delivered
MessageOfGate(messages, p) ==
    CHOOSE m \in DOMAIN messages :
        /\ Len(GatesOfMessages(SubSeq(messages, 1, m))) >= p
        /\ Len(GatesOfMessages(SubSeq(messages, 1, m - 1))) < p

\* The relation messages that hold a function of this name, one per occurrence
MessagesOfFunction(messages, name) ==
    UNION {{<<m, f>> : f \in {g \in DOMAIN messages[m].relation.functions :
                                  messages[m].relation.functions[g].name = name}} :
              m \in DOMAIN messages}

IsPushed(call) == call.op = "push_function" /\ call.result.ok

C40_DeliveredToSink ==
    /\ \A k \in DOMAIN builder.calls :
          Len(builder.calls[k].after.msg_build.relation.gates)
              < builder.calls[k].after.msg_build.max_len
    /\ \A k \in DOMAIN builder.calls :
          builder.calls[k].op = "GateBuilder::finish" =>
              LET messages == RelationMessages(builder.calls[k].after.msg_build.sink)
              IN  /\ GatesOfMessages(messages) = CreatedBy(k)
                  /\ \A j \in 1..(k - 1) :
                        IsPushed(builder.calls[j]) =>
                            /\ Cardinality(MessagesOfFunction(messages,
                                                builder.calls[j].name)) = 1
                            /\ \A mf \in MessagesOfFunction(messages, builder.calls[j].name) :
                                  /\ messages[mf[1]].relation.functions[mf[2]]
                                        = builder.calls[j].infos.function
                                  /\ \A i \in (j + 1)..(k - 1) :
                                        Creates(i) =>
                                            mf[1] <= MessageOfGate(messages,
                                                                   Len(CreatedBy(i)))

\* finish was called on a builder holding up to two gates that had created
\* a gate, pushed a function and created a gate again: the sink holds more
\* than one relation message and the last gates were flushed by finish
C40_Witness ==
    \E k \in DOMAIN builder.calls :
        /\ builder.calls[k].op = "GateBuilder::finish"
        /\ builder.calls[k].before.msg_build.max_len = 2
        /\ builder.calls[k].before.msg_build.relation.gates # <<>>
        /\ Len(RelationMessages(builder.calls[k].after.msg_build.sink)) >= 2
        /\ \E j \in 1..(k - 1) :
              /\ IsPushed(builder.calls[j])
              /\ \E i \in 1..(j - 1) : Creates(i)
              /\ \E i \in (j + 1)..(k - 1) : Creates(i)

====
